---- MODULE Spec2Model ----
(***************************************************************************)
(* A model of tiny-cacher (TinyCacher class): a caching facade over six    *)
(* storage strategies (local, shared, Redis, Memcached, SQLite3, files),   *)
(* with TTL handling and the timer-driven garbage collectors.              *)
(*                                                                         *)
(* Time is the value of `new Date()` in milliseconds.  JavaScript values   *)
(* are tagged records, serialised JSON text is a sequence of characters.   *)
(***************************************************************************)
EXTENDS Integers, Sequences, FiniteSets, TLC

(***************************************************************************)
(* Bounds of the model.                                                    *)
(***************************************************************************)
\* number of clock steps a behaviour may take
MaxTicks == 2
\* number of setInterval timers a behaviour may create
MaxTimers == 3
\* number of increment and decrement calls a behaviour may make
MaxIncrements == 2
MaxBatchIncrements == 1

(***************************************************************************)
(* Program constants.                                                      *)
(***************************************************************************)
STRATEGY_LOCAL == 1
STRATEGY_SHARED == 2
STRATEGY_REDIS == 4
STRATEGY_MEMCACHED == 5
STRATEGY_SQLITE3 == 6
STRATEGY_FILE == 7
\* the period given to setInterval by both garbage collectors
GC_INTERVAL_MS == 1000
\* Date.setSeconds(getSeconds() + ttl): one second of TTL in milliseconds
MS_PER_SECOND == 1000
\* the clock of the model advances in steps of this many milliseconds
TICK_MS == 1000
\* the value of new Date() when the program starts (any instant after the epoch)
START_MS == 10500

Strategies == {STRATEGY_LOCAL, STRATEGY_SHARED, STRATEGY_REDIS,
               STRATEGY_MEMCACHED, STRATEGY_SQLITE3, STRATEGY_FILE}

Instances == {1, 2}

\* the reaper of the shared storage is owned by no instance
GLOBAL == 0

(***************************************************************************)
(* JavaScript values.                                                      *)
(***************************************************************************)
UNDEFINED == "<undefined>"

JSUndefined == [type |-> "undefined", num |-> 0, str |-> <<>>]
JSNull == [type |-> "null", num |-> 0, str |-> <<>>]
JSNumber(n) == [type |-> "number", num |-> n, str |-> <<>>]
JSString(s) == [type |-> "string", num |-> 0, str |-> s]
JSBoolean(b) == [type |-> "boolean", num |-> IF b THEN 1 ELSE 0, str |-> <<>>]

\* a missing Date (null) is the empty tuple, a Date is <<milliseconds>>
NoDate == <<>>
DateOf(ms) == <<ms>>
\* ToNumber of a Date or of null, as the relational operators of JavaScript take it
DateToNumber(d) == IF d = NoDate THEN 0 ELSE d[1]

\* the namespaces, keys and values the model's callers use
Namespaces == {"", "demo"}
Keys == {"foo", "numeric"}
Values == {JSNumber(10), JSString(<<"b", "\"">>), JSNull}
\* ttl argument of push: <<>> is an omitted (undefined) argument
TTLArgs == {<<>>, <<0>>, <<1>>}

(***************************************************************************)
(* crypto.createHash('md5').update(s).digest('hex') on the strings used.   *)
(***************************************************************************)
md5(s) ==
    CASE s = "foo" -> "acbd18db4cc2f85cedef654fccc4a4d8"
      [] s = "numeric" -> "49057168d24dc9566533ec48326ced2c"
      [] s = "demo" -> "fe01ce2a7fbac8fafaed7c982a04e229"
      [] s = "missing" -> "ea21841da70e6405af19fabc4ff8bdd9"
      [] OTHER -> "d41d8cd98f00b204e9800998ecf8427e"

(***************************************************************************)
(* JSON.stringify and JSON.parse on the values of the model.               *)
(***************************************************************************)
Digit(d) == <<"0", "1", "2", "3", "4", "5", "6", "7", "8", "9">>[d + 1]

RECURSIVE NatToText(_)
NatToText(n) == IF n < 10 THEN <<Digit(n)>> ELSE NatToText(n \div 10) \o <<Digit(n % 10)>>

IntToText(n) == IF n < 0 THEN <<"-">> \o NatToText(-n) ELSE NatToText(n)

RECURSIVE EscapeText(_)
EscapeText(s) ==
    IF s = <<>> THEN <<>>
    ELSE (IF Head(s) \in {"\"", "\\"} THEN <<"\\", Head(s)>> ELSE <<Head(s)>>)
         \o EscapeText(Tail(s))

RECURSIVE UnescapeText(_)
UnescapeText(s) ==
    IF s = <<>> THEN <<>>
    ELSE IF Head(s) = "\\" /\ Len(s) >= 2
         THEN <<s[2]>> \o UnescapeText(Tail(Tail(s)))
         ELSE <<Head(s)>> \o UnescapeText(Tail(s))

JSONStringify(v) ==
    CASE v.type = "number" -> IntToText(v.num)
      [] v.type = "string" -> <<"\"">> \o EscapeText(v.str) \o <<"\"">>
      [] v.type = "boolean" -> IF v.num = 1 THEN <<"t", "r", "u", "e">>
                                            ELSE <<"f", "a", "l", "s", "e">>
      [] OTHER -> <<"n", "u", "l", "l">>

DigitValue(c) == CHOOSE d \in 0..9 : Digit(d) = c

RECURSIVE TextToNat(_)
TextToNat(s) ==
    IF s = <<>> THEN 0
    ELSE 10 * TextToNat(SubSeq(s, 1, Len(s) - 1)) + DigitValue(s[Len(s)])

JSONParse(s) ==
    CASE s = <<"n", "u", "l", "l">> -> JSNull
      [] s = <<"t", "r", "u", "e">> -> JSBoolean(TRUE)
      [] s = <<"f", "a", "l", "s", "e">> -> JSBoolean(FALSE)
      [] Head(s) = "\"" -> JSString(UnescapeText(SubSeq(s, 2, Len(s) - 1)))
      [] Head(s) = "-" -> JSNumber(0 - TextToNat(Tail(s)))
      [] OTHER -> JSNumber(TextToNat(s))

(***************************************************************************)
(* Objects used as maps: a function whose domain is the set of own keys.   *)
(***************************************************************************)
EmptyObject == [x \in {} |-> x]

HasOwn(obj, k) == k \in DOMAIN obj

ObjectSet(obj, k, v) == [x \in (DOMAIN obj) \cup {k} |-> IF x = k THEN v ELSE obj[x]]

ObjectDelete(obj, k) == [x \in (DOMAIN obj) \ {k} |-> obj[x]]

(***************************************************************************)
(* The state of the program.                                               *)
(***************************************************************************)
VARIABLES
    strategy,       \* this.strategy of each instance
    namespace,      \* this.namespace of each instance (UNDEFINED until setNamespace)
    namaspaceHash,  \* this.namaspaceHash of each instance (UNDEFINED until computed)
    defaultTTL,     \* this.defaultTTL of each instance, <<>> while undefined
    storage,        \* this.storage of each instance, the local storage
    thisGarbageCollectorInterval, \* this.garbageCollectorInterval: 0 or a timer id
    staticStorage,  \* the module-level staticStorage
    garbageCollectorInterval,     \* the module-level garbageCollectorInterval
    timers,         \* the interval timers that are active in the event loop
    timerCount,     \* the number of timers setInterval has created
    redisConnection,     \* this.redisConnection: "undefined", "open" or "null"
    memcachedConnection, \* this.memcachedConnection
    sqliteConnection,    \* this.sqliteConnection
    storagePath,    \* this.storagePath of each instance
    ready,          \* this.ready of each instance
    redisDb,        \* the keys of the Redis server
    memcachedDb,    \* the keys of the Memcached server
    sqliteDb,       \* the rows of table cache_storage
    fs,             \* the storage directory of the file strategy
    now,            \* the clock: the value new Date() returns, in milliseconds
    ticks,          \* the number of clock steps taken
    last,           \* the last call made and its outcome
    pushedKeys,     \* history: the <<store, namespace, key>> push was ever called for
    increments,     \* history: the number of increment and decrement calls made
    inflight,       \* the single-key calls issued whose callbacks are yet to run, and the settled ones
    batch           \* the multi-key call waiting on Promise.all of its single-key calls

cfgVars == <<strategy, namespace, defaultTTL>>
connVars == <<redisConnection, memcachedConnection, sqliteConnection, storagePath, ready>>
storeVars == <<storage, staticStorage, redisDb, memcachedDb, sqliteDb, fs>>
reaperVars == <<thisGarbageCollectorInterval, garbageCollectorInterval, timers, timerCount>>
clockVars == <<now, ticks>>
asyncVars == <<inflight, batch>>
vars == <<cfgVars, namaspaceHash, connVars, storeVars, reaperVars, clockVars, last,
          pushedKeys, increments, asyncVars>>

(***************************************************************************)
(* Outcomes of the asynchronous calls (the promise a method returns) and   *)
(* the record of the last call.                                            *)
(***************************************************************************)
Resolved(v) == [status |-> "resolved", value |-> v, error |-> ""]
Rejected(e) == [status |-> "rejected", value |-> JSUndefined, error |-> e]
\* a promise on which neither resolve nor reject is ever called
Pending == [status |-> "pending", value |-> JSUndefined, error |-> ""]
\* a synchronous method that returns v
Returned(v) == [status |-> "returned", value |-> v, error |-> ""]

NoCall ==
    [op |-> "none", inst |-> GLOBAL, ns |-> "", key |-> "", value |-> JSUndefined,
     overwrite |-> FALSE, ttl |-> <<>>, quiet |-> FALSE, all |-> FALSE, delta |-> 0,
     keys |-> <<>>, elements |-> <<>>, omitNotFound |-> FALSE,
     outcome |-> Returned(JSUndefined), removed |-> {}, requests |-> <<>>]

\* no multi-key call is waiting
NoBatch == [op |-> "none", inst |-> 0, keys |-> <<>>, quiet |-> FALSE, omitNotFound |-> FALSE,
            inserted |-> <<>>, outcome |-> Pending, all |-> FALSE, ns |-> "",
            pc |-> "none"]

(***************************************************************************)
(* Configuration getters.                                                  *)
(***************************************************************************)
GetStrategy(i) ==
    IF strategy[i] # 3 /\ strategy[i] > 0 /\ strategy[i] <= 7 THEN strategy[i] ELSE 1

GetNamespace(i) == IF namespace[i] = UNDEFINED THEN "" ELSE namespace[i]

GetDefaultTTL(i) ==
    IF defaultTTL[i] = <<>> THEN 0
    ELSE IF defaultTTL[i][1] <= 0 THEN 0 ELSE defaultTTL[i][1]

NamespaceHashOf(ns) == IF ns = "" THEN "*" ELSE md5(ns)

\* the namespace hash createKey uses and leaves in this.namaspaceHash
CreateKeyNamespace(i) ==
    IF namaspaceHash[i] = UNDEFINED \/ namaspaceHash[i] = ""
    THEN NamespaceHashOf(GetNamespace(i))
    ELSE namaspaceHash[i]

\* the merged key 'tiny-cacher:' + namespace + ':' + key, kept as its segments
Merged(ns, key) == <<"tiny-cacher:", ns, ":", key>>

\* createKey(key); key is "" for createKey(null)
CreateKey(i, key) ==
    LET ns == CreateKeyNamespace(i)
        k == IF key # "" THEN md5(key) ELSE ""
    IN [namespace |-> ns, key |-> k, merged |-> IF k # "" THEN Merged(ns, k) ELSE <<>>]

RedisConnected(i) == redisConnection[i] = "open"
MemcachedConnected(i) == memcachedConnection[i] = "open"
SQLite3Connected(i) == sqliteConnection[i] = "open"

\* init() returns normally (TRUE) or throws (FALSE)
InitOk(i) ==
    CASE GetStrategy(i) = STRATEGY_REDIS -> RedisConnected(i)
      [] GetStrategy(i) = STRATEGY_MEMCACHED -> MemcachedConnected(i)
      [] GetStrategy(i) = STRATEGY_SQLITE3 -> SQLite3Connected(i)
      [] GetStrategy(i) = STRATEGY_FILE -> storagePath[i] # UNDEFINED /\ storagePath[i] # ""
      [] OTHER -> TRUE

(***************************************************************************)
(* The stores an operation of instance i can touch, and how an operation   *)
(* writes them back.                                                       *)
(***************************************************************************)
World(i) ==
    [local |-> storage[i], shared |-> staticStorage, redis |-> redisDb,
     memcached |-> memcachedDb, sqlite |-> sqliteDb, fs |-> fs]

\* a write-back that keeps the shared storage of before the operation
CommitLocalOnly(i, w) ==
    /\ storage' = [storage EXCEPT ![i] = w.local]
    /\ staticStorage' = staticStorage
    /\ redisDb' = w.redis
    /\ memcachedDb' = w.memcached
    /\ sqliteDb' = w.sqlite
    /\ fs' = w.fs

\* a write-back that gives every instance the local storage of instance i
CommitEveryInstance(i, w) ==
    /\ storage' = [j \in Instances |-> w.local]
    /\ staticStorage' = w.shared
    /\ redisDb' = w.redis
    /\ memcachedDb' = w.memcached
    /\ sqliteDb' = w.sqlite
    /\ fs' = w.fs

Commit(i, w) ==
    /\ storage' = [storage EXCEPT ![i] = w.local]
    /\ staticStorage' = w.shared
    /\ redisDb' = w.redis
    /\ memcachedDb' = w.memcached
    /\ sqliteDb' = w.sqlite
    /\ fs' = w.fs

Step(w, o) == [world |-> w, outcome |-> o]

\* the store the strategy of instance i addresses: its own for the local strategy,
\* one per strategy for the others
StoreOf(i) == <<GetStrategy(i), IF GetStrategy(i) = STRATEGY_LOCAL THEN i ELSE GLOBAL>>

(***************************************************************************)
(* JavaScript's view of the "expire" field of a stored element, which push *)
(* sets to null or to a Date.                                              *)
(***************************************************************************)
\* typeof(expire) === 'undefined': push never leaves the field undefined
TypeofUndefined(d) == FALSE
\* typeof(expire) === 'object': true of null and of a Date
TypeofObject(d) == TRUE
\* expire instanceof Date
InstanceofDate(d) == d # NoDate
\* !expire instanceof Date parses as (!expire) instanceof Date: a boolean is no Date
NotExpireInstanceofDate(d) == FALSE

(***************************************************************************)
(* push: resolution of the ttl argument.                                   *)
(***************************************************************************)
\* the ttl after "ttl <= 0 -> null", <<>> being null
\* a resolution that takes the default even when a ttl is given
ResolveTTLDefaultOnly(i, ttlArg) ==
    LET t == GetDefaultTTL(i)
    IN IF t <= 0 THEN <<>> ELSE <<t>>

ResolveTTL(i, ttlArg) ==
    LET t == IF ttlArg # <<>> THEN ttlArg[1] ELSE GetDefaultTTL(i)
    IN IF t <= 0 THEN <<>> ELSE <<t>>

\* ttl === null ? null : expire
ExpireOf(ttl, currentDate) ==
    IF ttl = <<>> THEN NoDate ELSE DateOf(currentDate + ttl[1] * MS_PER_SECOND)

(***************************************************************************)
(* The local and the shared strategy: the same code runs on this.storage   *)
(* and on staticStorage.  st is the storage object, k the created key.     *)
(* Each operator gives the storage left behind and the promise's outcome.  *)
(***************************************************************************)
\* the test that makes push reject when overwrite is not true
KeyExists(element, currentDate) ==
    \/ ~TypeofObject(element.expire)
    \/ NotExpireInstanceofDate(element.expire)
    \/ DateToNumber(element.expire) >= currentDate

\* a push that keeps the expiry of the element it replaces
PushIntoKeepingExpire(st, k, value, overwrite, expire, currentDate) ==
    LET bucket == IF HasOwn(st, k.namespace) THEN st[k.namespace] ELSE EmptyObject
        element == [value |-> value,
                    expire |-> IF HasOwn(bucket, k.key) THEN bucket[k.key].expire ELSE expire]
        stored == ObjectSet(st, k.namespace, ObjectSet(bucket, k.key, element))
    IN IF /\ HasOwn(st, k.namespace)
          /\ ~overwrite
          /\ HasOwn(st[k.namespace], k.key)
          /\ KeyExists(st[k.namespace][k.key], currentDate)
       THEN Step(st, Rejected("This key already exists."))
       ELSE Step(stored, Resolved(JSUndefined))

PushInto(st, k, value, overwrite, expire, currentDate) ==
    LET element == [value |-> value, expire |-> expire]
        bucket == IF HasOwn(st, k.namespace) THEN st[k.namespace] ELSE EmptyObject
        stored == ObjectSet(st, k.namespace, ObjectSet(bucket, k.key, element))
    IN IF /\ HasOwn(st, k.namespace)
          /\ ~overwrite
          /\ HasOwn(st[k.namespace], k.key)
          /\ KeyExists(st[k.namespace][k.key], currentDate)
       THEN Step(st, Rejected("This key already exists."))
       ELSE Step(stored, Resolved(JSUndefined))

\* the test that sends pull and has into their "expired or malformed" branch
ExpireUnusable(element) ==
    \/ TypeofUndefined(element.expire)
    \/ (NotExpireInstanceofDate(element.expire) /\ element.expire # NoDate)

PullFrom(st, k, quiet, currentDate) ==
    IF ~HasOwn(st, k.namespace)
    THEN \* staticStorage[key.namespace] is undefined: reading [key.key] throws
         Step(st, Rejected("TypeError"))
    ELSE IF HasOwn(st[k.namespace], k.key) /\ st[k.namespace][k.key].value.type # "undefined"
    THEN LET element == st[k.namespace][k.key]
         IN IF ExpireUnusable(element)
            THEN IF element.expire # NoDate /\ DateToNumber(element.expire) < currentDate
                 THEN Step(ObjectSet(st, k.namespace, ObjectDelete(st[k.namespace], k.key)),
                           IF quiet THEN Resolved(JSNull) ELSE Rejected("Element has expired."))
                 ELSE Step(st, IF quiet THEN Resolved(JSNull) ELSE Rejected("Malformed element."))
            ELSE Step(st, Resolved(element.value))
    ELSE Step(st, IF quiet THEN Resolved(JSNull) ELSE Rejected("No such element found."))

HasIn(st, k) ==
    IF ~HasOwn(st, k.namespace)
    THEN Step(st, Rejected("TypeError"))
    ELSE IF HasOwn(st[k.namespace], k.key) /\ st[k.namespace][k.key].value.type # "undefined"
    THEN LET element == st[k.namespace][k.key]
         IN IF ExpireUnusable(element)
            THEN \* has declares no currentDate: evaluating it throws
                 IF element.expire # NoDate
                 THEN Step(st, Rejected("ReferenceError"))
                 ELSE Step(st, Resolved(JSBoolean(FALSE)))
            ELSE Step(st, Resolved(JSBoolean(TRUE)))
    ELSE Step(st, Resolved(JSBoolean(FALSE)))

RemoveFrom(st, k) ==
    IF ~HasOwn(st, k.namespace)
    THEN Step(st, Rejected("TypeError"))
    ELSE IF HasOwn(st[k.namespace], k.key)
    THEN Step(ObjectSet(st, k.namespace, ObjectDelete(st[k.namespace], k.key)),
              Resolved(JSUndefined))
    ELSE Step(st, Resolved(JSUndefined))

InvalidateIn(st, k, all) ==
    IF all
    THEN Step(EmptyObject, Resolved(JSUndefined))
    ELSE Step(ObjectSet(st, k.namespace, EmptyObject), Resolved(JSUndefined))

(***************************************************************************)
(* The garbage collector's sweep of a storage object.                      *)
(***************************************************************************)
\* a sweep test that also deletes an element expiring at the very instant of the sweep
SweepDeletesInclusive(element, nowDate) ==
    /\ TypeofObject(element.expire)
    /\ element.expire # NoDate
    /\ InstanceofDate(element.expire)
    /\ DateToNumber(element.expire) <= nowDate

\* a sweep test that deletes every element that has an expiry time
SweepDeletesAnyExpiry(element, nowDate) ==
    /\ TypeofObject(element.expire)
    /\ element.expire # NoDate
    /\ InstanceofDate(element.expire)

\* the test under which a sweep deletes an element
SweepDeletes(element, nowDate) ==
    /\ TypeofObject(element.expire)
    /\ element.expire # NoDate
    /\ InstanceofDate(element.expire)
    /\ DateToNumber(element.expire) < nowDate

\* the <<namespace, key>> pairs a sweep of st at nowDate deletes
SweptKeys(st, nowDate) ==
    {p \in UNION {{<<n, x>> : x \in DOMAIN st[n]} : n \in DOMAIN st} :
        SweepDeletes(st[p[1]][p[2]], nowDate)}

Sweep(st, nowDate) ==
    [n \in DOMAIN st |->
        [x \in {y \in DOMAIN st[n] : ~SweepDeletes(st[n][y], nowDate)} |-> st[n][x]]]

(***************************************************************************)
(* The Redis strategy.  The server keeps, for each merged key, the JSON    *)
(* text and the instant its native expiry removes it (NoDate: never).      *)
(***************************************************************************)
RedisLive(db, m, t) == HasOwn(db, m) /\ (db[m].expireAt = NoDate \/ t < db[m].expireAt[1])

\* SET key value, followed by EXPIRE key ttl when a ttl is given
\* a SET that leaves a live key as it is
RedisSetIfAbsent(db, m, text, ttl, t) ==
    IF RedisLive(db, m, t) THEN db
    ELSE ObjectSet(db, m, [value |-> text,
                           expireAt |-> IF ttl = <<>> THEN NoDate
                                        ELSE DateOf(t + ttl[1] * MS_PER_SECOND)])

RedisSetExpire(db, m, text, ttl, t) ==
    ObjectSet(db, m, [value |-> text,
                      expireAt |-> IF ttl = <<>> THEN NoDate
                                   ELSE DateOf(t + ttl[1] * MS_PER_SECOND)])

RedisPush(db, k, value, overwrite, ttl, t) ==
    IF overwrite
    THEN Step(RedisSetExpire(db, k.merged, JSONStringify(value), ttl, t), Resolved(JSUndefined))
    ELSE IF RedisLive(db, k.merged, t)
    THEN Step(db, Rejected("This key already exists."))
    ELSE Step(RedisSetExpire(db, k.merged, JSONStringify(value), ttl, t), Resolved(JSUndefined))

RedisPull(db, k, quiet, t) ==
    IF RedisLive(db, k.merged, t)
    THEN Step(db, Resolved(JSONParse(db[k.merged].value)))
    ELSE Step(db, IF quiet THEN Resolved(JSNull) ELSE Rejected("No such element found."))

RedisHas(db, k, t) == Step(db, Resolved(JSBoolean(RedisLive(db, k.merged, t))))

RedisRemove(db, k) == Step(ObjectDelete(db, k.merged), Resolved(JSUndefined))

\* KEYS pattern: 'tiny-cacher:*' or 'tiny-cacher:' + namespace + ':*', where the
\* server reads every * of the pattern as a wildcard, also the '*' that stands for
\* "no namespace"
RedisKeys(db, k, all, t) ==
    {m \in DOMAIN db : /\ RedisLive(db, m, t)
                       /\ (all \/ k.namespace = "*" \/ m[2] = k.namespace)}

RedisInvalidate(db, k, all, t) ==
    LET elements == RedisKeys(db, k, all, t)
    IN IF elements = {}
       THEN \* forEach runs no callback: neither resolve nor reject is called
            Step(db, Pending)
       ELSE Step([m \in (DOMAIN db) \ elements |-> db[m]], Resolved(JSUndefined))

(***************************************************************************)
(* The Memcached strategy.  The client library serialises the value; the   *)
(* server keeps it with the instant its native expiry removes it.          *)
(***************************************************************************)
MemcachedLive(db, m, t) == HasOwn(db, m) /\ (db[m].expireAt = NoDate \/ t < db[m].expireAt[1])

MemcachedSet(db, m, value, ttl, t) ==
    ObjectSet(db, m, [value |-> value,
                      expireAt |-> IF ttl = <<>> THEN NoDate
                                   ELSE DateOf(t + ttl[1] * MS_PER_SECOND)])

MemcachedPush(db, k, value, overwrite, ttl, t) ==
    IF overwrite
    THEN Step(MemcachedSet(db, k.merged, value, ttl, t), Resolved(JSUndefined))
    ELSE IF MemcachedLive(db, k.merged, t)
    THEN Step(db, Rejected("This key already exists."))
    ELSE Step(MemcachedSet(db, k.merged, value, ttl, t), Resolved(JSUndefined))

MemcachedPull(db, k, quiet, t) ==
    IF MemcachedLive(db, k.merged, t)
    THEN Step(db, Resolved(db[k.merged].value))
    ELSE Step(db, IF quiet THEN Resolved(JSNull) ELSE Rejected("No such element found."))

MemcachedHas(db, k, t) == Step(db, Resolved(JSBoolean(MemcachedLive(db, k.merged, t))))

MemcachedRemove(db, k) == Step(ObjectDelete(db, k.merged), Resolved(JSUndefined))

\* invalidation is not implemented for Memcached: the promise resolves
MemcachedInvalidate(db, k, all) == Step(db, Resolved(JSUndefined))

(***************************************************************************)
(* The SQLite3 strategy.  A row of cache_storage is keyed by               *)
(* <<namespace, key>>; DATETIME values are whole seconds; NULL is <<>>.    *)
(***************************************************************************)
\* DATETIME("now") and expire.toISOString().slice(0, 19): the instant cut to seconds
SqlDateTime(ms) == ms \div MS_PER_SECOND

\* SQL's three-valued logic: "TRUE", "FALSE" or "NULL"
SqlEqualsNull(x) == "NULL"
SqlGreaterEqual(x, y) == IF x = <<>> THEN "NULL" ELSE IF x[1] >= y THEN "TRUE" ELSE "FALSE"
SqlOr(p, q) ==
    IF p = "TRUE" \/ q = "TRUE" THEN "TRUE"
    ELSE IF p = "NULL" \/ q = "NULL" THEN "NULL" ELSE "FALSE"

\* WHERE namespace = ? AND key = ? AND ( expire = NULL OR expire >= DATETIME("now") )
SqlSelectable(db, k, t) ==
    /\ HasOwn(db, <<k.namespace, k.key>>)
    /\ SqlOr(SqlEqualsNull(db[<<k.namespace, k.key>>].expire),
             SqlGreaterEqual(db[<<k.namespace, k.key>>].expire, SqlDateTime(t))) = "TRUE"

\* an INSERT into a table without the primary key: a second row takes the place
SqlitePushUnconstrained(db, k, value, overwrite, ttl, t) ==
    Step(ObjectSet(db, <<k.namespace, k.key>>,
                   [value |-> JSONStringify(value),
                    numeric |-> IF value.type = "number" THEN 1 ELSE 0,
                    date |-> SqlDateTime(t),
                    expire |-> IF ttl = <<>> THEN <<>>
                               ELSE <<SqlDateTime(t + ttl[1] * MS_PER_SECOND)>>]),
         Resolved(JSUndefined))

SqlitePush(db, k, value, overwrite, ttl, t) ==
    LET row == [value |-> JSONStringify(value),
                numeric |-> IF value.type = "number" THEN 1 ELSE 0,
                date |-> SqlDateTime(t),
                expire |-> IF ttl = <<>> THEN <<>>
                           ELSE <<SqlDateTime(t + ttl[1] * MS_PER_SECOND)>>]
    IN IF ~overwrite /\ HasOwn(db, <<k.namespace, k.key>>)
    THEN \* INSERT violates the primary key: SQLITE_CONSTRAINT
         Step(db, Rejected("This key already exists."))
    ELSE Step(ObjectSet(db, <<k.namespace, k.key>>, row), Resolved(JSUndefined))

SqlitePull(db, k, quiet, t) ==
    IF SqlSelectable(db, k, t)
    THEN Step(db, Resolved(JSONParse(db[<<k.namespace, k.key>>].value)))
    ELSE Step(db, IF quiet THEN Resolved(JSNull) ELSE Rejected("No such element found."))

SqliteHas(db, k, t) == Step(db, Resolved(JSBoolean(SqlSelectable(db, k, t))))

SqliteRemove(db, k) == Step(ObjectDelete(db, <<k.namespace, k.key>>), Resolved(JSUndefined))

SqliteInvalidate(db, k, all) ==
    IF all
    THEN Step(EmptyObject, Resolved(JSUndefined))
    ELSE Step([r \in {x \in DOMAIN db : x[1] # k.namespace} |-> db[r]], Resolved(JSUndefined))

(***************************************************************************)
(* The file strategy.  d.root: the storage directory exists; d.dirs: the   *)
(* namespace directories in it; d.files: the .cache files, keyed by        *)
(* <<namespace, key>>, with their content.                                 *)
(***************************************************************************)
FilePush(d, k, value, overwrite) ==
    LET made == [d EXCEPT !.dirs = @ \cup {k.namespace}]
        exists == d.root /\ k.namespace \in d.dirs
    IN IF ~exists /\ ~d.root
       THEN \* mkdirSync throws: the parent directory is missing
            Step(d, Rejected("An error occurred while creating the storage directory."))
       ELSE IF ~overwrite /\ HasOwn(made.files, <<k.namespace, k.key>>)
       THEN Step(made, Rejected("This key already exists."))
       ELSE Step([made EXCEPT !.files = ObjectSet(@, <<k.namespace, k.key>>,
                                                  JSONStringify(value))],
                 Resolved(JSUndefined))

FilePull(d, k, quiet) ==
    IF HasOwn(d.files, <<k.namespace, k.key>>)
    THEN Step(d, Resolved(JSONParse(d.files[<<k.namespace, k.key>>])))
    ELSE Step(d, IF quiet THEN Resolved(JSNull) ELSE Rejected("No such element found."))

FileHas(d, k) == Step(d, Resolved(JSBoolean(HasOwn(d.files, <<k.namespace, k.key>>))))

FileRemove(d, k) ==
    IF HasOwn(d.files, <<k.namespace, k.key>>)
    THEN Step([d EXCEPT !.files = ObjectDelete(@, <<k.namespace, k.key>>)],
              Resolved(JSUndefined))
    ELSE \* unlinkSync throws on a missing file
         Step(d, Rejected("An error occurred while removing the file."))

FileInvalidate(d, k, all) ==
    IF all
    THEN Step([root |-> FALSE, dirs |-> {}, files |-> EmptyObject], Resolved(JSUndefined))
    ELSE Step([d EXCEPT !.dirs = @ \ {k.namespace},
                        !.files = [f \in {x \in DOMAIN d.files : x[1] # k.namespace}
                                      |-> d.files[f]]],
              Resolved(JSUndefined))

(***************************************************************************)
(* The public operations: what a call of instance i does to the stores     *)
(* and how its promise settles, by strategy.                               *)
(***************************************************************************)
InitFailed(w) == Step(w, Rejected("An error occurred while initialising the storage."))

PushIn(w, i, key, value, overwrite, ttlArg) ==
    LET ttl == ResolveTTL(i, ttlArg)
        k == CreateKey(i, key)
        s == GetStrategy(i)
    IN IF ~InitOk(i) THEN InitFailed(w)
       ELSE CASE s = STRATEGY_SHARED ->
                   LET r == PushInto(w.shared, k, value, overwrite, ExpireOf(ttl, now), now)
                   IN Step([w EXCEPT !.shared = r.world], r.outcome)
              [] s = STRATEGY_REDIS ->
                   LET r == RedisPush(w.redis, k, value, overwrite, ttl, now)
                   IN Step([w EXCEPT !.redis = r.world], r.outcome)
              [] s = STRATEGY_MEMCACHED ->
                   LET r == MemcachedPush(w.memcached, k, value, overwrite, ttl, now)
                   IN Step([w EXCEPT !.memcached = r.world], r.outcome)
              [] s = STRATEGY_SQLITE3 ->
                   LET r == SqlitePush(w.sqlite, k, value, overwrite, ttl, now)
                   IN Step([w EXCEPT !.sqlite = r.world], r.outcome)
              [] s = STRATEGY_FILE ->
                   LET r == FilePush(w.fs, k, value, overwrite)
                   IN Step([w EXCEPT !.fs = r.world], r.outcome)
              [] OTHER ->
                   LET r == PushInto(w.local, k, value, overwrite, ExpireOf(ttl, now), now)
                   IN Step([w EXCEPT !.local = r.world], r.outcome)

PushResult(i, key, value, overwrite, ttlArg) == PushIn(World(i), i, key, value, overwrite, ttlArg)

PullIn(w, i, k, quiet) ==
    LET s == GetStrategy(i)
    IN IF ~InitOk(i) THEN InitFailed(w)
       ELSE CASE s = STRATEGY_SHARED ->
                   LET r == PullFrom(w.shared, k, quiet, now)
                   IN Step([w EXCEPT !.shared = r.world], r.outcome)
              [] s = STRATEGY_REDIS -> Step(w, RedisPull(w.redis, k, quiet, now).outcome)
              [] s = STRATEGY_MEMCACHED ->
                   Step(w, MemcachedPull(w.memcached, k, quiet, now).outcome)
              [] s = STRATEGY_SQLITE3 -> Step(w, SqlitePull(w.sqlite, k, quiet, now).outcome)
              [] s = STRATEGY_FILE -> Step(w, FilePull(w.fs, k, quiet).outcome)
              [] OTHER ->
                   LET r == PullFrom(w.local, k, quiet, now)
                   IN Step([w EXCEPT !.local = r.world], r.outcome)

PullWith(i, k, quiet) == PullIn(World(i), i, k, quiet)

PullResult(i, key, quiet) == PullWith(i, CreateKey(i, key), quiet)

HasInWorld(w, i, k) ==
    LET s == GetStrategy(i)
    IN IF ~InitOk(i) THEN InitFailed(w)
       ELSE CASE s = STRATEGY_SHARED ->
                   LET r == HasIn(w.shared, k)
                   IN Step([w EXCEPT !.shared = r.world], r.outcome)
              [] s = STRATEGY_REDIS -> Step(w, RedisHas(w.redis, k, now).outcome)
              [] s = STRATEGY_MEMCACHED -> Step(w, MemcachedHas(w.memcached, k, now).outcome)
              [] s = STRATEGY_SQLITE3 -> Step(w, SqliteHas(w.sqlite, k, now).outcome)
              [] s = STRATEGY_FILE -> Step(w, FileHas(w.fs, k).outcome)
              [] OTHER ->
                   LET r == HasIn(w.local, k)
                   IN Step([w EXCEPT !.local = r.world], r.outcome)

HasWith(i, k) == HasInWorld(World(i), i, k)

HasResult(i, key) == HasWith(i, CreateKey(i, key))

RemoveIn(w, i, key) ==
    LET k == CreateKey(i, key)
        s == GetStrategy(i)
    IN IF ~InitOk(i) THEN InitFailed(w)
       ELSE CASE s = STRATEGY_SHARED ->
                   LET r == RemoveFrom(w.shared, k)
                   IN Step([w EXCEPT !.shared = r.world], r.outcome)
              [] s = STRATEGY_REDIS ->
                   LET r == RedisRemove(w.redis, k)
                   IN Step([w EXCEPT !.redis = r.world], r.outcome)
              [] s = STRATEGY_MEMCACHED ->
                   LET r == MemcachedRemove(w.memcached, k)
                   IN Step([w EXCEPT !.memcached = r.world], r.outcome)
              [] s = STRATEGY_SQLITE3 ->
                   LET r == SqliteRemove(w.sqlite, k)
                   IN Step([w EXCEPT !.sqlite = r.world], r.outcome)
              [] s = STRATEGY_FILE ->
                   LET r == FileRemove(w.fs, k)
                   IN Step([w EXCEPT !.fs = r.world], r.outcome)
              [] OTHER ->
                   LET r == RemoveFrom(w.local, k)
                   IN Step([w EXCEPT !.local = r.world], r.outcome)

RemoveResult(i, key) == RemoveIn(World(i), i, key)

InvalidateResult(i, all) ==
    LET k == CreateKey(i, "")
        w == World(i)
        s == GetStrategy(i)
    IN IF ~InitOk(i) THEN InitFailed(w)
       ELSE CASE s = STRATEGY_SHARED ->
                   LET r == InvalidateIn(w.shared, k, all)
                   IN Step([w EXCEPT !.shared = r.world], r.outcome)
              [] s = STRATEGY_REDIS ->
                   LET r == RedisInvalidate(w.redis, k, all, now)
                   IN Step([w EXCEPT !.redis = r.world], r.outcome)
              [] s = STRATEGY_MEMCACHED ->
                   LET r == MemcachedInvalidate(w.memcached, k, all)
                   IN Step([w EXCEPT !.memcached = r.world], r.outcome)
              [] s = STRATEGY_SQLITE3 ->
                   LET r == SqliteInvalidate(w.sqlite, k, all)
                   IN Step([w EXCEPT !.sqlite = r.world], r.outcome)
              [] s = STRATEGY_FILE ->
                   LET r == FileInvalidate(w.fs, k, all)
                   IN Step([w EXCEPT !.fs = r.world], r.outcome)
              [] OTHER ->
                   LET r == InvalidateIn(w.local, k, all)
                   IN Step([w EXCEPT !.local = r.world], r.outcome)

(***************************************************************************)
(* Init: the state after the module is loaded and the instances are        *)
(* constructed with `new TinyCacher(strategy)`.                            *)
(***************************************************************************)
InitWith(strategies) ==
    /\ strategy \in strategies
    /\ namespace = [i \in Instances |-> UNDEFINED]
    /\ namaspaceHash = [i \in Instances |-> UNDEFINED]
    /\ defaultTTL = [i \in Instances |-> <<>>]
    /\ storage = [i \in Instances |-> EmptyObject]
    /\ thisGarbageCollectorInterval = [i \in Instances |-> 0]
    /\ staticStorage = EmptyObject
    /\ garbageCollectorInterval = 0
    /\ timers = {}
    /\ timerCount = 0
    /\ redisConnection = [i \in Instances |-> "undefined"]
    /\ memcachedConnection = [i \in Instances |-> "undefined"]
    /\ sqliteConnection = [i \in Instances |-> "undefined"]
    /\ storagePath = [i \in Instances |-> UNDEFINED]
    /\ ready = [i \in Instances |-> TRUE]
    /\ redisDb = EmptyObject
    /\ memcachedDb = EmptyObject
    /\ sqliteDb = EmptyObject
    /\ fs = [root |-> FALSE, dirs |-> {}, files |-> EmptyObject]
    /\ now = START_MS
    /\ ticks = 0
    /\ last = NoCall
    /\ pushedKeys = {}
    /\ increments = 0
    /\ inflight = <<>>
    /\ batch = NoBatch

(***************************************************************************)
(* Configuration.                                                          *)
(***************************************************************************)
\* a setNamespace that stores the namespace and keeps the hash it has
SetNamespaceKeepingHash(i, ns) ==
    /\ namespace' = [namespace EXCEPT ![i] = ns]
    /\ namaspaceHash' = IF namaspaceHash[i] = UNDEFINED
                        THEN [namaspaceHash EXCEPT ![i] = NamespaceHashOf(ns)]
                        ELSE namaspaceHash
    /\ last' = [NoCall EXCEPT !.op = "setNamespace", !.inst = i, !.ns = NamespaceHashOf(ns)]
    /\ UNCHANGED <<strategy, defaultTTL, connVars, storeVars, reaperVars, clockVars, pushedKeys, increments, asyncVars>>

SetNamespace(i, ns) ==
    /\ IF namespace[i] = UNDEFINED \/ ns # namespace[i]
       THEN /\ namaspaceHash' = [namaspaceHash EXCEPT ![i] = NamespaceHashOf(ns)]
            /\ namespace' = [namespace EXCEPT ![i] = ns]
       ELSE UNCHANGED <<namaspaceHash, namespace>>
    /\ last' = [NoCall EXCEPT !.op = "setNamespace", !.inst = i, !.ns = NamespaceHashOf(ns)]
    /\ UNCHANGED <<strategy, defaultTTL, connVars, storeVars, reaperVars, clockVars, pushedKeys, increments, asyncVars>>

SetDefaultTTL(i, ttl) ==
    /\ defaultTTL' = [defaultTTL EXCEPT ![i] = <<IF ttl <= 0 THEN 0 ELSE ttl>>]
    /\ last' = [NoCall EXCEPT !.op = "setDefaultTTL", !.inst = i, !.ttl = <<ttl>>]
    /\ UNCHANGED <<strategy, namespace, namaspaceHash, connVars, storeVars, reaperVars,
                   clockVars, pushedKeys, increments, asyncVars>>

(***************************************************************************)
(* Connections.  The connection attempt succeeds.                          *)
(***************************************************************************)
ConnectToRedis(i) ==
    /\ redisConnection' = [redisConnection EXCEPT ![i] = "open"]
    /\ ready' = [ready EXCEPT ![i] = TRUE]
    /\ last' = [NoCall EXCEPT !.op = "connectToRedis", !.inst = i,
                              !.outcome = Resolved(JSUndefined)]
    /\ UNCHANGED <<cfgVars, namaspaceHash, memcachedConnection, sqliteConnection,
                   storagePath, storeVars, reaperVars, clockVars, pushedKeys, increments, asyncVars>>

\* connectToMemcached sets this.ready = false and resolves without setting it back
ConnectToMemcached(i) ==
    /\ memcachedConnection' = [memcachedConnection EXCEPT ![i] = "open"]
    /\ ready' = [ready EXCEPT ![i] = FALSE]
    /\ last' = [NoCall EXCEPT !.op = "connectToMemcached", !.inst = i,
                              !.outcome = Resolved(JSUndefined)]
    /\ UNCHANGED <<cfgVars, namaspaceHash, redisConnection, sqliteConnection,
                   storagePath, storeVars, reaperVars, clockVars, pushedKeys, increments, asyncVars>>

ConnectToSQLite(i) ==
    /\ sqliteConnection' = [sqliteConnection EXCEPT ![i] = "open"]
    /\ ready' = [ready EXCEPT ![i] = TRUE]
    /\ last' = [NoCall EXCEPT !.op = "connectToSQLite", !.inst = i,
                              !.outcome = Resolved(JSUndefined)]
    /\ UNCHANGED <<cfgVars, namaspaceHash, redisConnection, memcachedConnection,
                   storagePath, storeVars, reaperVars, clockVars, pushedKeys, increments, asyncVars>>

SetStorageDirectory(i, path) ==
    /\ fs' = [fs EXCEPT !.root = TRUE]
    /\ storagePath' = [storagePath EXCEPT ![i] = path]
    /\ ready' = [ready EXCEPT ![i] = TRUE]
    /\ last' = [NoCall EXCEPT !.op = "setStorageDirectory", !.inst = i]
    /\ UNCHANGED <<cfgVars, namaspaceHash, redisConnection, memcachedConnection,
                   sqliteConnection, storage, staticStorage, redisDb, memcachedDb,
                   sqliteDb, reaperVars, clockVars, pushedKeys, increments, asyncVars>>

(***************************************************************************)
(* The cache operations.  Every one of them runs createKey, which leaves   *)
(* the namespace hash it used in this.namaspaceHash.                       *)
(***************************************************************************)
Operation(i, r, call) ==
    /\ Commit(i, r.world)
    /\ namaspaceHash' = [namaspaceHash EXCEPT ![i] = CreateKeyNamespace(i)]
    /\ last' = [call EXCEPT !.inst = i, !.ns = CreateKeyNamespace(i), !.outcome = r.outcome]
    /\ pushedKeys' = IF call.op = "push"
                     THEN pushedKeys \cup {<<StoreOf(i), CreateKeyNamespace(i), md5(call.key)>>}
                     ELSE pushedKeys
    /\ increments' = IF call.op \in {"increment", "decrement"}
                     THEN increments + 1
                     ELSE increments
    /\ UNCHANGED <<cfgVars, connVars, reaperVars, clockVars, asyncVars>>

Push(i, key, value, overwrite, ttlArg) ==
    Operation(i, PushResult(i, key, value, overwrite, ttlArg),
              [NoCall EXCEPT !.op = "push", !.key = key, !.value = value,
                             !.overwrite = overwrite, !.ttl = ttlArg])

Pull(i, key, quiet) ==
    Operation(i, PullResult(i, key, quiet),
              [NoCall EXCEPT !.op = "pull", !.key = key, !.quiet = quiet])

Has(i, key) ==
    Operation(i, HasResult(i, key), [NoCall EXCEPT !.op = "has", !.key = key])

Remove(i, key) ==
    Operation(i, RemoveResult(i, key), [NoCall EXCEPT !.op = "remove", !.key = key])

Invalidate(i, all) ==
    Operation(i, InvalidateResult(i, all), [NoCall EXCEPT !.op = "invalidate", !.all = all])

(***************************************************************************)
(* The garbage collectors.  A timer is [id, owner, due]: the handle        *)
(* setInterval returned, the reaper whose sweep it runs (GLOBAL or an      *)
(* instance) and the instant of its next tick.                             *)
(***************************************************************************)
TimerOf(id) == {t \in timers : t.id = id}

\* a clearInterval that leaves the timer active
ClearIntervalKeeping(id) == timers

\* clearInterval(handle)
ClearInterval(id) == timers \ TimerOf(id)

\* setInterval(callback, 1000) by `owner`
SetInterval(owner) == timers \cup {[id |-> timerCount + 1, owner |-> owner,
                                    due |-> now + GC_INTERVAL_MS]}

RunGlobalGarbageCollector ==
    /\ staticStorage' = Sweep(staticStorage, now)
    /\ last' = [NoCall EXCEPT !.op = "runGlobalGarbageCollector", !.inst = GLOBAL,
                              !.removed = SweptKeys(staticStorage, now)]
    /\ UNCHANGED <<cfgVars, namaspaceHash, connVars, storage, redisDb, memcachedDb,
                   sqliteDb, fs, reaperVars, clockVars, pushedKeys, increments, asyncVars>>

\* an instance sweep that sweeps the shared storage as well
RunGarbageCollectorEverywhere(i) ==
    /\ storage' = [storage EXCEPT ![i] = Sweep(storage[i], now)]
    /\ staticStorage' = Sweep(staticStorage, now)
    /\ last' = [NoCall EXCEPT !.op = "runGarbageCollector", !.inst = i,
                              !.removed = SweptKeys(storage[i], now)]
    /\ UNCHANGED <<cfgVars, namaspaceHash, connVars, redisDb, memcachedDb,
                   sqliteDb, fs, reaperVars, clockVars, pushedKeys, increments, asyncVars>>

RunGarbageCollector(i) ==
    /\ storage' = [storage EXCEPT ![i] = Sweep(storage[i], now)]
    /\ last' = [NoCall EXCEPT !.op = "runGarbageCollector", !.inst = i,
                              !.removed = SweptKeys(storage[i], now)]
    /\ UNCHANGED <<cfgVars, namaspaceHash, connVars, staticStorage, redisDb, memcachedDb,
                   sqliteDb, fs, reaperVars, clockVars, pushedKeys, increments, asyncVars>>

StartGlobalGarbageCollector ==
    /\ IF garbageCollectorInterval = 0
       THEN /\ timerCount < MaxTimers
            /\ garbageCollectorInterval' = timerCount + 1
            /\ timers' = SetInterval(GLOBAL)
            /\ timerCount' = timerCount + 1
            /\ staticStorage' = Sweep(staticStorage, now)
            /\ last' = [NoCall EXCEPT !.op = "startGlobalGarbageCollector",
                                      !.inst = GLOBAL,
                                      !.removed = SweptKeys(staticStorage, now),
                                      !.outcome = Returned(JSBoolean(TRUE))]
       ELSE /\ last' = [NoCall EXCEPT !.op = "startGlobalGarbageCollector",
                                      !.inst = GLOBAL,
                                      !.outcome = Returned(JSBoolean(FALSE))]
            /\ UNCHANGED <<garbageCollectorInterval, timers, timerCount, staticStorage>>
    /\ UNCHANGED <<cfgVars, namaspaceHash, connVars, storage, redisDb, memcachedDb,
                   sqliteDb, fs, thisGarbageCollectorInterval, clockVars, pushedKeys, increments, asyncVars>>

\* static stopGlobalGarbageCollector()
StopGlobalGarbageCollector ==
    /\ IF garbageCollectorInterval # 0
       THEN /\ timers' = ClearInterval(garbageCollectorInterval)
            /\ last' = [NoCall EXCEPT !.op = "stopGlobalGarbageCollector", !.inst = GLOBAL,
                                      !.outcome = Returned(JSBoolean(TRUE))]
       ELSE /\ last' = [NoCall EXCEPT !.op = "stopGlobalGarbageCollector", !.inst = GLOBAL,
                                      !.outcome = Returned(JSBoolean(FALSE))]
            /\ UNCHANGED timers
    /\ UNCHANGED <<cfgVars, namaspaceHash, connVars, storeVars, garbageCollectorInterval,
                   thisGarbageCollectorInterval, timerCount, clockVars, pushedKeys, increments, asyncVars>>

StartGarbageCollector(i) ==
    /\ IF thisGarbageCollectorInterval[i] = 0
       THEN /\ timerCount < MaxTimers
            /\ thisGarbageCollectorInterval' =
                   [thisGarbageCollectorInterval EXCEPT ![i] = timerCount + 1]
            /\ timers' = SetInterval(i)
            /\ timerCount' = timerCount + 1
            /\ storage' = [storage EXCEPT ![i] = Sweep(storage[i], now)]
            /\ last' = [NoCall EXCEPT !.op = "startGarbageCollector", !.inst = i,
                                      !.removed = SweptKeys(storage[i], now),
                                      !.outcome = Returned(JSBoolean(TRUE))]
       ELSE /\ last' = [NoCall EXCEPT !.op = "startGarbageCollector", !.inst = i,
                                      !.outcome = Returned(JSBoolean(FALSE))]
            /\ UNCHANGED <<thisGarbageCollectorInterval, timers, timerCount, storage>>
    /\ UNCHANGED <<cfgVars, namaspaceHash, connVars, staticStorage, redisDb, memcachedDb,
                   sqliteDb, fs, garbageCollectorInterval, clockVars, pushedKeys, increments, asyncVars>>

\* the instance method stopGlobalGarbageCollector(), the stop of the instance's reaper
InstanceStopGarbageCollector(i) ==
    /\ IF thisGarbageCollectorInterval[i] # 0 /\ garbageCollectorInterval # 0
       THEN /\ timers' = ClearInterval(thisGarbageCollectorInterval[i])
            /\ last' = [NoCall EXCEPT !.op = "stopGarbageCollector", !.inst = i,
                                      !.outcome = Returned(JSBoolean(TRUE))]
       ELSE /\ last' = [NoCall EXCEPT !.op = "stopGarbageCollector", !.inst = i,
                                      !.outcome = Returned(JSBoolean(FALSE))]
            /\ UNCHANGED timers
    /\ UNCHANGED <<cfgVars, namaspaceHash, connVars, storeVars, garbageCollectorInterval,
                   thisGarbageCollectorInterval, timerCount, clockVars, pushedKeys, increments, asyncVars>>

\* a tick of an active interval timer runs its owner's sweep
TimerTick(t) ==
    /\ t \in timers
    /\ now >= t.due
    /\ timers' = (timers \ {t}) \cup {[t EXCEPT !.due = now + GC_INTERVAL_MS]}
    /\ IF t.owner = GLOBAL
       THEN /\ staticStorage' = Sweep(staticStorage, now)
            /\ last' = [NoCall EXCEPT !.op = "timer", !.inst = GLOBAL,
                                      !.removed = SweptKeys(staticStorage, now)]
            /\ UNCHANGED storage
       ELSE /\ storage' = [storage EXCEPT ![t.owner] = Sweep(storage[t.owner], now)]
            /\ last' = [NoCall EXCEPT !.op = "timer", !.inst = t.owner,
                                      !.removed = SweptKeys(storage[t.owner], now)]
            /\ UNCHANGED staticStorage
    /\ UNCHANGED <<cfgVars, namaspaceHash, connVars, redisDb, memcachedDb, sqliteDb, fs,
                   garbageCollectorInterval, thisGarbageCollectorInterval, timerCount,
                   clockVars, pushedKeys, increments, asyncVars>>

(***************************************************************************)
(* The clock.                                                              *)
(***************************************************************************)
Tick ==
    /\ ticks < MaxTicks
    /\ now' = now + TICK_MS
    /\ ticks' = ticks + 1
    /\ last' = [NoCall EXCEPT !.op = "clock"]
    /\ UNCHANGED <<cfgVars, namaspaceHash, connVars, storeVars, reaperVars, pushedKeys, increments, asyncVars>>

(***************************************************************************)
(* Spec: one instance on any of the six strategies, making the cache       *)
(* calls while the clock advances.  Instance 2 stays as constructed.       *)
(***************************************************************************)
SpecKeys == {"foo"}
SpecValues == {JSNumber(10), JSString(<<"b", "\"">>)}
SpecTTLArgs == {<<>>, <<1>>}

Init == InitWith({f \in [Instances -> Strategies] : f[2] = STRATEGY_LOCAL})

Connect(i) ==
    \/ GetStrategy(i) = STRATEGY_REDIS /\ ConnectToRedis(i)
    \/ GetStrategy(i) = STRATEGY_MEMCACHED /\ ConnectToMemcached(i)
    \/ GetStrategy(i) = STRATEGY_SQLITE3 /\ ConnectToSQLite(i)
    \/ GetStrategy(i) = STRATEGY_FILE /\ SetStorageDirectory(i, "cache")

Next ==
    \/ Connect(1)
    \/ \E ns \in Namespaces : SetNamespace(1, ns)
    \/ \E key \in SpecKeys, value \in SpecValues, overwrite \in BOOLEAN,
          ttlArg \in SpecTTLArgs : Push(1, key, value, overwrite, ttlArg)
    \/ \E key \in SpecKeys, quiet \in BOOLEAN : Pull(1, key, quiet)
    \/ \E key \in SpecKeys : Has(1, key)
    \/ \E key \in SpecKeys : Remove(1, key)
    \/ \E all \in BOOLEAN : Invalidate(1, all)
    \/ Tick

Spec == Init /\ [][Next]_vars

(***************************************************************************)
(* SpecReaper: an instance on the local or the shared strategy, with its   *)
(* own garbage collector, the process-wide one and their timers.           *)
(***************************************************************************)
InitReaper ==
    InitWith({f \in [Instances -> {STRATEGY_LOCAL, STRATEGY_SHARED}] : f[2] = STRATEGY_LOCAL})

NextReaper ==
    \/ \E value \in SpecValues, ttlArg \in SpecTTLArgs : Push(1, "foo", value, TRUE, ttlArg)
    \/ Has(1, "foo")
    \/ RunGlobalGarbageCollector
    \/ RunGarbageCollector(1)
    \/ StartGlobalGarbageCollector
    \/ StopGlobalGarbageCollector
    \/ StartGarbageCollector(1)
    \/ InstanceStopGarbageCollector(1)
    \/ \E t \in timers : TimerTick(t)
    \/ Tick

SpecReaper == InitReaper /\ [][NextReaper]_vars

(***************************************************************************)
(* Properties.  `last` is the call the latest step made and its outcome.   *)
(***************************************************************************)
\* the created key of `key` under the namespace hash ns
KeyUnder(ns, key) == [namespace |-> ns, key |-> md5(key), merged |-> Merged(ns, md5(key))]

NamespaceHashes == {NamespaceHashOf(ns) : ns \in Namespaces}

\* the storage object the memory strategy of instance i works on
StorageOf(i) == IF GetStrategy(i) = STRATEGY_SHARED THEN staticStorage ELSE storage[i]

\* C1: on every backend, for every key, value and TTL choice, a push with
\* overwrite = true that succeeded is followed by a pull of the same key that
\* returns the pushed value unchanged.
C1_RoundTrip ==
    (last.op = "push" /\ last.overwrite /\ last.outcome.status = "resolved")
        => PullResult(last.inst, last.key, FALSE).outcome = Resolved(last.value)

\* C2: after a push with overwrite = false succeeded, a second push of the same
\* key with overwrite = false made right after it (the entry is still live: no
\* time has passed) is rejected with the key-exists error and pull still gives
\* the first value.
C2_SecondPushRejected ==
    [][(/\ last.op = "push" /\ ~last.overwrite /\ last.outcome.status = "resolved"
        /\ last'.op = "push" /\ ~last'.overwrite
        /\ last'.inst = last.inst /\ last'.ns = last.ns /\ last'.key = last.key)
       => (/\ last'.outcome = Rejected("This key already exists.")
           /\ PullResult(last.inst, last.key, FALSE)'.outcome = Resolved(last.value))]_vars

\* the local or shared storage of instance i holds, under the active namespace,
\* an entry of `key` whose expiry time is in the past
ExpiredAt(i, key) ==
    LET k == CreateKey(i, key)
        st == StorageOf(i)
    IN /\ GetStrategy(i) \in {STRATEGY_LOCAL, STRATEGY_SHARED}
       /\ HasOwn(st, k.namespace)
       /\ HasOwn(st[k.namespace], k.key)
       /\ st[k.namespace][k.key].expire # NoDate
       /\ DateToNumber(st[k.namespace][k.key].expire) < now

\* C3: on the local and the shared strategy an entry whose expiry time has
\* passed is never read as present: pull is rejected, a quiet pull gives null
\* and has gives false, whether or not a sweep has run.
C3_ExpiredNeverPresent ==
    \A i \in Instances, key \in Keys :
        ExpiredAt(i, key) =>
            /\ PullResult(i, key, FALSE).outcome.status = "rejected"
            /\ PullResult(i, key, TRUE).outcome = Resolved(JSNull)
            /\ HasResult(i, key).outcome = Resolved(JSBoolean(FALSE))

\* C4: for a key that was never pushed into the instance's store under the
\* active namespace, a fresh instance included, has resolves to false and a
\* quiet pull resolves to null; neither is rejected.
C4_AbsentKeyReadsAbsent ==
    \A i \in Instances, key \in Keys :
        (InitOk(i) /\ <<StoreOf(i), CreateKeyNamespace(i), md5(key)>> \notin pushedKeys)
            => /\ HasResult(i, key).outcome = Resolved(JSBoolean(FALSE))
               /\ PullResult(i, key, TRUE).outcome = Resolved(JSNull)

\* the reapers: the process-wide one and each instance's
Reapers == {GLOBAL} \cup Instances

\* the storage object the reaper r sweeps
StorageOfReaper(r) == IF r = GLOBAL THEN staticStorage ELSE storage[r]

\* the reaper r has an active periodic timer
Running(r) == \E t \in timers : t.owner = r

\* the latest step ran a sweep of reaper r's storage
SweepRan(r, call) ==
    /\ call.inst = r
    /\ \/ call.op \in {"runGlobalGarbageCollector", "runGarbageCollector", "timer"}
       \/ /\ call.op \in {"startGlobalGarbageCollector", "startGarbageCollector"}
          /\ call.outcome = Returned(JSBoolean(TRUE))

StartOf(r, call) ==
    /\ call.inst = r
    /\ call.op = IF r = GLOBAL THEN "startGlobalGarbageCollector" ELSE "startGarbageCollector"

\* C6: start() on a Stopped reaper makes it Running, sweeps once and returns
\* true; start() on a Running reaper returns false and changes nothing; a
\* reaper never has more than one active timer.
C6_StartSemantics ==
    [][\A r \in Reapers :
          /\ StartOf(r, last') =>
                IF Running(r)
                THEN /\ last'.outcome = Returned(JSBoolean(FALSE))
                     /\ UNCHANGED <<timers, storeVars>>
                ELSE /\ last'.outcome = Returned(JSBoolean(TRUE))
                     /\ Running(r)'
                     /\ StorageOfReaper(r)' = Sweep(StorageOfReaper(r), now)
          /\ Cardinality({t \in timers' : t.owner = r}) <= 1]_vars

\* C7: stop() on the process-wide reaper returns true and leaves it Stopped
\* when it was Running, and returns false when it was already Stopped.
C7_StopSemantics ==
    [][last'.op = "stopGlobalGarbageCollector" =>
          IF Running(GLOBAL)
          THEN last'.outcome = Returned(JSBoolean(TRUE)) /\ ~Running(GLOBAL)'
          ELSE last'.outcome = Returned(JSBoolean(FALSE)) /\ ~Running(GLOBAL)']_vars

\* C8: a start() of the process-wide reaper that comes right after a stop()
\* returns true, sweeps the shared storage and leaves the reaper Running.
C8_RestartAfterStop ==
    [][(last.op = "stopGlobalGarbageCollector" /\ StartOf(GLOBAL, last')) =>
          /\ last'.outcome = Returned(JSBoolean(TRUE))
          /\ staticStorage' = Sweep(staticStorage, now)
          /\ Running(GLOBAL)']_vars

\* C9: the instance-level stop returns true and cancels the instance's timer
\* whenever that instance's reaper is Running, whatever the state of the
\* process-wide reaper, and returns false when it is not Running.
C9_InstanceStopSemantics ==
    [][\A i \in Instances :
          (last'.op = "stopGarbageCollector" /\ last'.inst = i) =>
              IF Running(i)
              THEN last'.outcome = Returned(JSBoolean(TRUE)) /\ ~Running(i)'
              ELSE last'.outcome = Returned(JSBoolean(FALSE)) /\ ~Running(i)']_vars

\* the latest step was an invalidate(all = false) of instance i that resolved
InvalidateOf(i, call) ==
    /\ call.op = "invalidate"
    /\ call.inst = i
    /\ ~call.all
    /\ call.outcome.status = "resolved"

\* C10: after invalidate(all = false) has is false for every key of the active
\* namespace, and every entry that pull returned under another namespace of
\* the same backend is still returned with the same value.
C10_InvalidateOnlyActiveNamespace ==
    [][\A i \in Instances :
          InvalidateOf(i, last') =>
              /\ \A key \in Keys : HasResult(i, key)'.outcome = Resolved(JSBoolean(FALSE))
              /\ \A ns \in NamespaceHashes \ {CreateKeyNamespace(i)}, key \in Keys :
                    PullWith(i, KeyUnder(ns, key), FALSE).outcome.status = "resolved"
                       => PullWith(i, KeyUnder(ns, key), FALSE)'.outcome
                            = PullWith(i, KeyUnder(ns, key), FALSE).outcome]_vars

\* the latest step was an invalidate(all = true) of instance i that resolved
InvalidateAllOf(i, call) ==
    /\ call.op = "invalidate"
    /\ call.inst = i
    /\ call.all
    /\ call.outcome.status = "resolved"

\* C11: after invalidate(true) on the local or the shared strategy the storage
\* holds no entry, and for every instance working on that storage, every
\* namespace and every key, has resolves to false and a quiet pull resolves to
\* null.
C11_InvalidateAllReadsAbsent ==
    [][\A i \in Instances :
          (InvalidateAllOf(i, last') /\ GetStrategy(i) \in {STRATEGY_LOCAL, STRATEGY_SHARED}) =>
              /\ \A n \in DOMAIN StorageOf(i)' : DOMAIN StorageOf(i)'[n] = {}
              /\ \A j \in {i} \cup {x \in Instances : GetStrategy(x) = GetStrategy(i)
                                                      /\ GetStrategy(i) = STRATEGY_SHARED} :
                    \A ns \in NamespaceHashes, key \in Keys :
                       /\ HasWith(j, KeyUnder(ns, key))'.outcome = Resolved(JSBoolean(FALSE))
                       /\ PullWith(j, KeyUnder(ns, key), TRUE)'.outcome = Resolved(JSNull)]_vars

(***************************************************************************)
(* increment and decrement.  The delta is an integer; a key argument is a  *)
(* string, NOT_A_STRING standing for an argument of any other type.        *)
(***************************************************************************)
NOT_A_STRING == "<not a string>"

\* typeof(key) === 'string' && key !== ''
ValidKey(key) == key # NOT_A_STRING /\ key # ""

\* the number the JSON text holds, <<>> when the text is no number
NumberOfText(text) ==
    IF JSONParse(text).type = "number" /\ JSONStringify(JSONParse(text)) = text
    THEN <<JSONParse(text).num>> ELSE <<>>

\* staticStorage[namespace][key].value += value, when the element holds a number
\* an increment that stores the delta under a key that has no number
IncrementIntoCreating(st, k, value) ==
    LET bucket == IF HasOwn(st, k.namespace) THEN st[k.namespace] ELSE EmptyObject
        old == IF HasOwn(bucket, k.key) /\ bucket[k.key].value.type = "number"
               THEN bucket[k.key].value.num
               ELSE 0
    IN Step(ObjectSet(st, k.namespace,
                ObjectSet(bucket, k.key, [value |-> JSNumber(old + value), expire |-> NoDate])),
            Resolved(JSUndefined))

\* an increment that stores the new number as an entry without expiry
IncrementIntoDroppingExpire(st, k, value) ==
    IF /\ HasOwn(st, k.namespace)
       /\ HasOwn(st[k.namespace], k.key)
       /\ st[k.namespace][k.key].value.type = "number"
    THEN Step(ObjectSet(st, k.namespace,
                  ObjectSet(st[k.namespace], k.key,
                      [value |-> JSNumber(st[k.namespace][k.key].value.num + value),
                       expire |-> NoDate])),
              Resolved(JSUndefined))
    ELSE Step(st, Resolved(JSUndefined))

IncrementInto(st, k, value) ==
    IF /\ HasOwn(st, k.namespace)
       /\ HasOwn(st[k.namespace], k.key)
       /\ st[k.namespace][k.key].value.type = "number"
    THEN Step(ObjectSet(st, k.namespace,
                  ObjectSet(st[k.namespace], k.key,
                      [st[k.namespace][k.key] EXCEPT
                          !.value = JSNumber(st[k.namespace][k.key].value.num + value)])),
              Resolved(JSUndefined))
    ELSE Step(st, Resolved(JSUndefined))

\* INCRBYFLOAT key value: a missing key counts as 0 and is created without
\* expiry, a value that is no number is an error, the expiry of a key is kept
RedisIncrement(db, k, value, t) ==
    IF ~RedisLive(db, k.merged, t)
    THEN Step(ObjectSet(db, k.merged, [value |-> IntToText(value), expireAt |-> NoDate]),
              Resolved(JSUndefined))
    ELSE IF NumberOfText(db[k.merged].value) = <<>>
    THEN Step(db, Rejected("An error occurred in Redis transaction."))
    ELSE Step(ObjectSet(db, k.merged,
                  [db[k.merged] EXCEPT
                      !.value = IntToText(NumberOfText(db[k.merged].value)[1] + value)]),
              Resolved(JSUndefined))

\* value < 0 ? ( Math.floor(value) + 1 ) : Math.floor(value)
MemcachedBuffer(value) == IF value < 0 THEN value + 1 ELSE value

\* incr / decr: the server counts on unsigned decimal values only, decr stops
\* at 0, and a missing key is reported without an error
MemcachedIncrement(db, k, value, t) ==
    LET buffer == MemcachedBuffer(value)
        amount == IF buffer < 0 THEN 0 - buffer ELSE buffer
    IN IF ~MemcachedLive(db, k.merged, t)
       THEN Step(db, Resolved(JSUndefined))
       ELSE IF db[k.merged].value.type # "number" \/ db[k.merged].value.num < 0
       THEN Step(db, Rejected("An error occurred in Memcached transaction."))
       ELSE LET old == db[k.merged].value.num
                new == IF value < 0
                       THEN (IF old - amount < 0 THEN 0 ELSE old - amount)
                       ELSE old + amount
            IN Step(ObjectSet(db, k.merged, [db[k.merged] EXCEPT !.value = JSNumber(new)]),
                    Resolved(JSUndefined))

\* UPDATE cache_storage SET value = value + ? WHERE namespace = ? AND key = ?
\* AND numeric = 1
\* an UPDATE without the test of the numeric column: a text counts as 0
SqliteIncrementAnyRow(db, k, value) ==
    IF HasOwn(db, <<k.namespace, k.key>>)
    THEN LET old == NumberOfText(db[<<k.namespace, k.key>>].value)
         IN Step(ObjectSet(db, <<k.namespace, k.key>>,
                     [db[<<k.namespace, k.key>>] EXCEPT
                         !.value = IntToText((IF old = <<>> THEN 0 ELSE old[1]) + value)]),
                 Resolved(JSUndefined))
    ELSE Step(db, Resolved(JSUndefined))

SqliteIncrement(db, k, value) ==
    IF HasOwn(db, <<k.namespace, k.key>>) /\ db[<<k.namespace, k.key>>].numeric = 1
    THEN Step(ObjectSet(db, <<k.namespace, k.key>>,
                  [db[<<k.namespace, k.key>>] EXCEPT
                      !.value = IntToText(NumberOfText(db[<<k.namespace, k.key>>].value)[1]
                                          + value)]),
              Resolved(JSUndefined))
    ELSE Step(db, Resolved(JSUndefined))

IncrementIn(w, i, key, value) ==
    LET k == CreateKey(i, key)
        s == GetStrategy(i)
    IN IF ~ValidKey(key) THEN Step(w, Rejected("Key cannot be an empty string."))
       ELSE IF value = 0 THEN Step(w, Resolved(JSUndefined))
       ELSE IF ~InitOk(i) THEN InitFailed(w)
       ELSE CASE s = STRATEGY_SHARED ->
                   LET r == IncrementInto(w.shared, k, value)
                   IN Step([w EXCEPT !.shared = r.world], r.outcome)
              [] s = STRATEGY_REDIS ->
                   LET r == RedisIncrement(w.redis, k, value, now)
                   IN Step([w EXCEPT !.redis = r.world], r.outcome)
              [] s = STRATEGY_MEMCACHED ->
                   LET r == MemcachedIncrement(w.memcached, k, value, now)
                   IN Step([w EXCEPT !.memcached = r.world], r.outcome)
              [] s = STRATEGY_SQLITE3 ->
                   LET r == SqliteIncrement(w.sqlite, k, value)
                   IN Step([w EXCEPT !.sqlite = r.world], r.outcome)
              [] s = STRATEGY_FILE -> Step(w, Resolved(JSUndefined))
              [] OTHER ->
                   LET r == IncrementInto(w.local, k, value)
                   IN Step([w EXCEPT !.local = r.world], r.outcome)

IncrementResult(i, key, value) == IncrementIn(World(i), i, key, value)

\* decrement(key, value) is increment(key, -value)
DecrementResult(i, key, value) == IncrementResult(i, key, 0 - value)

Increment(i, key, value) ==
    /\ increments < MaxIncrements
    /\ Operation(i, IncrementResult(i, key, value),
                 [NoCall EXCEPT !.op = "increment", !.key = key, !.delta = value])

Decrement(i, key, value) ==
    /\ increments < MaxIncrements
    /\ Operation(i, DecrementResult(i, key, value),
                 [NoCall EXCEPT !.op = "decrement", !.key = key, !.delta = value])

(***************************************************************************)
(* The multi-key operations.  Each validates its argument, then issues one *)
(* single-key call per key, in the order of the keys, and joins them with  *)
(* Promise.all.  A call is a record like NoCall; `keys` is a sequence of   *)
(* key arguments, `elements` a sequence of <<key, value>> pairs, the own   *)
(* properties of the object in their enumeration order.                    *)
(***************************************************************************)
\* an object value: own property name -> value
JSObject(map) == [type |-> "object", num |-> 0, str |-> <<>>, map |-> map]

\* the single-key call c made on the stores w
PerKey(w, i, c) ==
    IF ~ValidKey(c.key)
    THEN Step(w, Rejected(IF c.op = "push" THEN "Invalid key."
                          ELSE "Key cannot be an empty string."))
    ELSE CASE c.op = "push" -> PushIn(w, i, c.key, c.value, c.overwrite, c.ttl)
           [] c.op = "pull" -> PullIn(w, i, CreateKey(i, c.key), c.quiet)
           [] c.op = "has" -> HasInWorld(w, i, CreateKey(i, c.key))
           [] c.op = "remove" -> RemoveIn(w, i, c.key)
           [] OTHER -> IncrementIn(w, i, c.key, c.delta)

\* a loop that stops issuing calls after the first one that resolves false
RECURSIVE RequestsUntilFalse(_, _, _)
RequestsUntilFalse(w, i, calls) ==
    IF calls = <<>>
    THEN [world |-> w, outcomes |-> <<>>]
    ELSE LET r == PerKey(w, i, Head(calls))
             rest == IF r.outcome = Resolved(JSBoolean(FALSE))
                     THEN [world |-> r.world, outcomes |-> <<>>]
                     ELSE RequestsUntilFalse(r.world, i, Tail(calls))
         IN [world |-> rest.world, outcomes |-> <<r.outcome>> \o rest.outcomes]

\* a loop that stops issuing calls after the first one that is rejected
RECURSIVE RequestsUntilRejected(_, _, _)
RequestsUntilRejected(w, i, calls) ==
    IF calls = <<>>
    THEN [world |-> w, outcomes |-> <<>>]
    ELSE LET r == PerKey(w, i, Head(calls))
             rest == IF r.outcome.status = "rejected"
                     THEN [world |-> r.world, outcomes |-> <<>>]
                     ELSE RequestsUntilRejected(r.world, i, Tail(calls))
         IN [world |-> rest.world, outcomes |-> <<r.outcome>> \o rest.outcomes]

\* requests.push(this.op(keys[i], ...)) for every key: the stores after the
\* calls and the outcome of each
RECURSIVE Requests(_, _, _)
Requests(w, i, calls) ==
    IF calls = <<>>
    THEN [world |-> w, outcomes |-> <<>>]
    ELSE LET r == PerKey(w, i, Head(calls))
             rest == Requests(r.world, i, Tail(calls))
         IN [world |-> rest.world, outcomes |-> <<r.outcome>> \o rest.outcomes]

\* the indexes of the outcomes with the given status
WithStatus(outcomes, status) == {x \in DOMAIN outcomes : outcomes[x].status = status}

Least(S) == CHOOSE x \in S : \A y \in S : x <= y
Greatest(S) == CHOOSE x \in S : \A y \in S : x >= y

\* Promise.all(requests).then(...).catch(...): rejected with the reason of the
\* first rejected request, else resolved with `whenAll` once every request is
\* resolved
PromiseAll(outcomes, whenAll) ==
    IF WithStatus(outcomes, "rejected") # {}
    THEN Rejected(outcomes[Least(WithStatus(outcomes, "rejected"))].error)
    ELSE IF WithStatus(outcomes, "pending") # {} THEN Pending
    ELSE Resolved(whenAll)

\* a validation that looks at the first key only
ValidateKeysFirstOnly(keys, whenEmpty) ==
    IF Len(keys) = 0 THEN <<Resolved(whenEmpty)>>
    ELSE IF ~ValidKey(keys[1]) THEN <<Rejected("Invalid key found.")>>
    ELSE <<>>

\* a validation that refuses an empty array
ValidateKeysRejectEmpty(keys, whenEmpty) ==
    IF Len(keys) = 0 THEN <<Rejected("Invalid keys.")>>
    ELSE IF \E x \in DOMAIN keys : ~ValidKey(keys[x]) THEN <<Rejected("Invalid key found.")>>
    ELSE <<>>

\* the validation every multi-key operation on an array of keys starts with
\* (keys is an array in every call made here): <<>> when the keys pass, else
\* the outcome that ends the call
ValidateKeys(keys, whenEmpty) ==
    IF Len(keys) = 0 THEN <<Resolved(whenEmpty)>>
    ELSE IF \E x \in DOMAIN keys : ~ValidKey(keys[x]) THEN <<Rejected("Invalid key found.")>>
    ELSE <<>>

\* data[keys[i]] = elements[i] for every index in `kept`, in order
Collected(keys, outcomes, kept) ==
    [key \in {keys[x] : x \in kept} |->
        outcomes[Greatest({x \in kept : keys[x] = key})].value]

PushMultiResult(i, elements, overwrite, ttlArg) ==
    LET w == World(i)
        calls == [x \in DOMAIN elements |->
                     [NoCall EXCEPT !.op = "push", !.key = elements[x][1],
                                    !.value = elements[x][2], !.overwrite = overwrite,
                                    !.ttl = ttlArg]]
        r == Requests(w, i, calls)
    IN IF \E x \in DOMAIN elements : elements[x][1] = ""
       THEN Step(w, Rejected("Invalid key found."))
       ELSE IF Len(elements) = 0 THEN Step(w, Resolved(JSUndefined))
       ELSE Step(r.world, PromiseAll(r.outcomes, JSUndefined))

PullMultiResult(i, keys, quiet, omitNotFound) ==
    LET w == World(i)
        v == ValidateKeys(keys, JSObject(EmptyObject))
        calls == [x \in DOMAIN keys |-> [NoCall EXCEPT !.op = "pull", !.key = keys[x],
                                                        !.quiet = quiet]]
        r == Requests(w, i, calls)
        kept == IF omitNotFound
                THEN {x \in DOMAIN keys : r.outcomes[x].value # JSNull}
                ELSE DOMAIN keys
    IN IF v # <<>> THEN Step(w, v[1])
       ELSE Step(r.world, PromiseAll(r.outcomes, JSObject(Collected(keys, r.outcomes, kept))))

HasMultiResult(i, keys) ==
    LET w == World(i)
        v == ValidateKeys(keys, JSObject(EmptyObject))
        calls == [x \in DOMAIN keys |-> [NoCall EXCEPT !.op = "has", !.key = keys[x]]]
        r == Requests(w, i, calls)
    IN IF v # <<>> THEN Step(w, v[1])
       ELSE Step(r.world,
                 PromiseAll(r.outcomes, JSObject(Collected(keys, r.outcomes, DOMAIN keys))))

\* the has calls hasAll issues: none when the validation ends the call, else
\* one per key before any of them is awaited
HasAllRequests(i, keys) ==
    LET calls == [x \in DOMAIN keys |-> [NoCall EXCEPT !.op = "has", !.key = keys[x]]]
    IN IF ValidateKeys(keys, JSBoolean(TRUE)) # <<>>
       THEN [world |-> World(i), outcomes |-> <<>>]
       ELSE Requests(World(i), i, calls)

HasAllResult(i, keys) ==
    LET w == World(i)
        v == ValidateKeys(keys, JSBoolean(TRUE))
        r == HasAllRequests(i, keys)
    IN IF v # <<>> THEN Step(w, v[1])
       ELSE Step(r.world,
                 PromiseAll(r.outcomes,
                     JSBoolean(\A x \in DOMAIN r.outcomes :
                                  r.outcomes[x].value # JSBoolean(FALSE))))

RemoveMultiResult(i, keys) ==
    LET w == World(i)
        v == ValidateKeys(keys, JSObject(EmptyObject))
        calls == [x \in DOMAIN keys |-> [NoCall EXCEPT !.op = "remove", !.key = keys[x]]]
        r == Requests(w, i, calls)
    IN IF v # <<>> THEN Step(w, v[1])
       ELSE Step(r.world, PromiseAll(r.outcomes, JSUndefined))

IncrementMultiResult(i, keys, value) ==
    LET w == World(i)
        v == ValidateKeys(keys, JSUndefined)
        calls == [x \in DOMAIN keys |-> [NoCall EXCEPT !.op = "increment", !.key = keys[x],
                                                        !.delta = value]]
        r == Requests(w, i, calls)
    IN IF v # <<>> THEN Step(w, v[1])
       ELSE Step(r.world, PromiseAll(r.outcomes, JSUndefined))

\* whether a multi-key call goes past its validation and issues its requests
IssuesRequests(call) ==
    IF call.op = "pushMulti"
    THEN Len(call.elements) > 0 /\ \A x \in DOMAIN call.elements : call.elements[x][1] # ""
    ELSE ValidateKeys(call.keys, JSUndefined) = <<>>

\* a multi-key call of instance i; createKey runs only in the single-key calls
MultiOperation(i, r, call) ==
    /\ Commit(i, r.world)
    /\ namaspaceHash' = IF IssuesRequests(call)
                        THEN [namaspaceHash EXCEPT ![i] = CreateKeyNamespace(i)]
                        ELSE namaspaceHash
    /\ last' = [call EXCEPT !.inst = i, !.ns = CreateKeyNamespace(i), !.outcome = r.outcome]
    /\ pushedKeys' = IF call.op = "pushMulti" /\ IssuesRequests(call)
                     THEN pushedKeys \cup
                          {<<StoreOf(i), CreateKeyNamespace(i), md5(call.elements[x][1])>> :
                              x \in DOMAIN call.elements}
                     ELSE pushedKeys
    /\ increments' = IF call.op = "incrementMulti" /\ IssuesRequests(call)
                     THEN increments + 1
                     ELSE increments
    /\ UNCHANGED <<cfgVars, connVars, reaperVars, clockVars, asyncVars>>

PushMulti(i, elements, overwrite, ttlArg) ==
    MultiOperation(i, PushMultiResult(i, elements, overwrite, ttlArg),
                   [NoCall EXCEPT !.op = "pushMulti", !.elements = elements,
                                  !.overwrite = overwrite, !.ttl = ttlArg])

PullMulti(i, keys, quiet, omitNotFound) ==
    MultiOperation(i, PullMultiResult(i, keys, quiet, omitNotFound),
                   [NoCall EXCEPT !.op = "pullMulti", !.keys = keys, !.quiet = quiet,
                                  !.omitNotFound = omitNotFound])

HasMulti(i, keys) ==
    MultiOperation(i, HasMultiResult(i, keys), [NoCall EXCEPT !.op = "hasMulti", !.keys = keys])

HasAll(i, keys) ==
    MultiOperation(i, HasAllResult(i, keys),
                   [NoCall EXCEPT !.op = "hasAll", !.keys = keys,
                                  !.requests = HasAllRequests(i, keys).outcomes])

RemoveMulti(i, keys) ==
    MultiOperation(i, RemoveMultiResult(i, keys),
                   [NoCall EXCEPT !.op = "removeMulti", !.keys = keys])

IncrementMulti(i, keys, value) ==
    /\ increments < MaxBatchIncrements
    /\ MultiOperation(i, IncrementMultiResult(i, keys, value),
                      [NoCall EXCEPT !.op = "incrementMulti", !.keys = keys, !.delta = value])

(***************************************************************************)
(* SpecMulti: one instance on any of the six strategies making the         *)
(* multi-key calls, with batches of up to MaxBatch keys, some of them      *)
(* invalid.                                                                *)
(***************************************************************************)
MaxBatch == 2

MultiKeyArgs == {"foo", "", NOT_A_STRING}
MultiValues == {JSNumber(10), JSNull}

\* the arrays of up to MaxBatch key arguments
MultiKeySeqs == UNION {[1..n -> MultiKeyArgs] : n \in 0..MaxBatch}

\* the objects of up to MaxBatch properties: property names are strings, each once
MultiElements ==
    {e \in UNION {[1..n -> (MultiKeyArgs \ {NOT_A_STRING}) \X MultiValues] : n \in 0..MaxBatch} :
        \A x, y \in DOMAIN e : x # y => e[x][1] # e[y][1]}

NextMulti ==
    \/ Connect(1)
    \/ \E elements \in MultiElements, overwrite \in BOOLEAN :
          PushMulti(1, elements, overwrite, <<>>)
    \/ \E keys \in MultiKeySeqs, quiet \in BOOLEAN : PullMulti(1, keys, quiet, FALSE)
    \/ \E keys \in MultiKeySeqs : HasMulti(1, keys)
    \/ \E keys \in MultiKeySeqs : HasAll(1, keys)
    \/ \E keys \in MultiKeySeqs : RemoveMulti(1, keys)
    \/ \E keys \in MultiKeySeqs : IncrementMulti(1, keys, 1)

SpecMulti == Init /\ [][NextMulti]_vars

(***************************************************************************)
(* One instance, on any strategy, storing batches under two keys and       *)
(* reading batches that may also name a third key nobody stores.           *)
(***************************************************************************)
PushBatches ==
    {e \in UNION {[1..n -> {"foo", "numeric"} \X {JSNumber(10), JSString(<<"b", "\"">>)}] :
                      n \in 1..MaxBatch} :
        \A x, y \in DOMAIN e : x # y => e[x][1] # e[y][1]}

PullBatches ==
    {k \in UNION {[1..n -> {"foo", "numeric", "missing"}] : n \in 1..(MaxBatch + 1)} :
        \A x, y \in DOMAIN k : x # y => k[x] # k[y]}

NextBatch ==
    \/ Connect(1)
    \/ \E elements \in PushBatches, overwrite \in BOOLEAN :
          PushMulti(1, elements, overwrite, <<>>)
    \/ \E keys \in PullBatches, omitNotFound \in BOOLEAN :
          PullMulti(1, keys, TRUE, omitNotFound)

SpecBatch == Init /\ [][NextBatch]_vars

(***************************************************************************)
(* One instance, on any strategy, storing a number and moving it up and    *)
(* down.                                                                   *)
(***************************************************************************)
IncrementDeltas == {1, 3}

NextIncrement ==
    \/ Connect(1)
    \/ \E ttlArg \in SpecTTLArgs : Push(1, "numeric", JSNumber(10), TRUE, ttlArg)
    \/ Push(1, "numeric", JSString(<<"b", "\"">>), TRUE, <<>>)
    \/ \E value \in IncrementDeltas : Increment(1, "numeric", value)
    \/ \E value \in IncrementDeltas : Decrement(1, "numeric", value)
    \/ Pull(1, "numeric", TRUE)
    \/ Remove(1, "numeric")

SpecIncrement == Init /\ [][NextIncrement]_vars

(***************************************************************************)
(* Properties of the multi-key operations.                                 *)
(***************************************************************************)
MultiOps == {"pushMulti", "pullMulti", "hasMulti", "hasAll", "removeMulti", "incrementMulti"}

\* the key arguments of a multi-key call, in order
BatchKeys(call) ==
    IF call.op = "pushMulti"
    THEN [x \in DOMAIN call.elements |-> call.elements[x][1]]
    ELSE call.keys

\* C12: a multi-key call whose batch holds a key that is not a non-empty string,
\* at any position, is rejected and leaves every store and the instance's
\* namespace hash as they were: no single-key call was issued.
C12_InvalidKeyFailsWholeBatch ==
    [][(last'.op \in MultiOps /\ \E x \in DOMAIN BatchKeys(last') : ~ValidKey(BatchKeys(last')[x]))
          => /\ last'.outcome.status = "rejected"
             /\ last'.outcome.error = "Invalid key found."
             /\ UNCHANGED <<storeVars, namaspaceHash, pushedKeys, increments>>]_vars

\* removeMulti(['foo', '']) was rejected and the entry of 'foo' is still there
C12_InvalidAfterValid ==
    /\ last.op = "removeMulti"
    /\ last.keys = <<"foo", "">>
    /\ last.outcome.status = "rejected"
    /\ HasResult(last.inst, "foo").outcome = Resolved(JSBoolean(TRUE))

\* C13 as stated: a multi-key call given an empty collection is rejected.
C13_EmptyBatchRejected ==
    [][(last'.op \in MultiOps /\ BatchKeys(last') = <<>>)
          => last'.outcome.status = "rejected"]_vars

\* C13 amended: a multi-key call given an empty collection resolves without
\* issuing a single-key call: pushMulti and incrementMulti with no value,
\* pullMulti, hasMulti and removeMulti with an empty object, hasAll with true;
\* the stores stay as they were.
C13_EmptyBatchResolves ==
    [][(last'.op \in MultiOps /\ BatchKeys(last') = <<>>)
          => /\ last'.outcome =
                  Resolved(CASE last'.op \in {"pushMulti", "incrementMulti"} -> JSUndefined
                             [] last'.op = "hasAll" -> JSBoolean(TRUE)
                             [] OTHER -> JSObject(EmptyObject))
             /\ UNCHANGED <<storeVars, namaspaceHash, pushedKeys, increments>>]_vars

\* hasAll([]) resolved to true
C13_HasAllOfNothing ==
    /\ last.op = "hasAll"
    /\ last.keys = <<>>
    /\ last.outcome = Resolved(JSBoolean(TRUE))

\* the value a batch stores under a key
ValueIn(elements, key) ==
    elements[CHOOSE x \in DOMAIN elements : elements[x][1] = key][2]

\* C14: a quiet pullMulti that follows a pushMulti that resolved, on the same
\* instance, resolves to an object with one field per requested key: the value
\* the pushMulti stored for a key of its batch, null for a key nobody ever
\* stored; with omitNotFound the second kind of key has no field at all.
C14_PullMultiAfterPushMulti ==
    [][(/\ last.op = "pushMulti" /\ last.outcome.status = "resolved"
        /\ last'.op = "pullMulti" /\ last'.quiet /\ last'.inst = last.inst)
          => /\ last'.outcome.status = "resolved"
             /\ LET got == last'.outcome.value.map
                    asked == {last'.keys[x] : x \in DOMAIN last'.keys}
                    pushed == {last.elements[x][1] : x \in DOMAIN last.elements}
                IN /\ DOMAIN got \subseteq asked
                   /\ \A key \in asked \cap pushed :
                         key \in DOMAIN got /\ got[key] = ValueIn(last.elements, key)
                   /\ \A key \in asked :
                         <<StoreOf(last.inst), last.ns, md5(key)>> \notin pushedKeys
                            => IF last'.omitNotFound
                               THEN key \notin DOMAIN got
                               ELSE key \in DOMAIN got /\ got[key] = JSNull]_vars

\* the number a pull of the key resolves to, in a set of at most one element
PulledNumbers(i, key) ==
    LET o == PullResult(i, key, FALSE).outcome
    IN IF o.status = "resolved" /\ o.value.type = "number" THEN {o.value.num} ELSE {}

\* C15: on a strategy other than File, increment(k, d) with d >= 1 on an entry
\* that pulls as the number n makes it pull as n + d, and a decrement(k, d)
\* that follows an increment(k, d) makes it pull as d less than before.
C15_IncrementThenDecrement ==
    [][\A i \in Instances, key \in Keys : \A n \in PulledNumbers(i, key) :
          (/\ last'.inst = i /\ last'.key = key
           /\ GetStrategy(i) # STRATEGY_FILE
           /\ last'.delta >= 1)
             => /\ last'.op = "increment" => PulledNumbers(i, key)' = {n + last'.delta}
                /\ (last'.op = "decrement" /\ last.op = "increment" /\ last.key = key
                       /\ last.delta = last'.delta /\ last.outcome.status = "resolved")
                      => /\ last'.outcome.status = "resolved"
                         /\ PulledNumbers(i, key)' = {n - last'.delta}]_vars

\* C16: remove of a key that holds no entry (never pushed into the instance's
\* store under the active namespace, or removed by the call just before)
\* resolves and leaves every store as it was.
C16_RemoveOfAbsentKey ==
    [][\A i \in Instances, key \in Keys :
          (/\ last'.op = "remove" /\ last'.inst = i /\ last'.key = key
           /\ InitOk(i)
           /\ \/ <<StoreOf(i), last'.ns, md5(key)>> \notin pushedKeys
              \/ /\ last.op = "remove" /\ last.inst = i /\ last.key = key
                 /\ last.ns = last'.ns /\ last.outcome.status = "resolved")
             => /\ last'.outcome = Resolved(JSUndefined)
                /\ UNCHANGED storeVars]_vars

\* the entry of a key is stored and its expiry time has passed
ExpiredEntry(i, key) ==
    LET k == CreateKey(i, key)
    IN \/ ExpiredAt(i, key)
       \/ /\ GetStrategy(i) = STRATEGY_SQLITE3
          /\ HasOwn(sqliteDb, <<k.namespace, k.key>>)
          /\ sqliteDb[<<k.namespace, k.key>>].expire # <<>>
          /\ sqliteDb[<<k.namespace, k.key>>].expire[1] < SqlDateTime(now)

\* the values stored under a key, in a set of at most one element
StoredValues(i, key) ==
    LET k == CreateKey(i, key)
        st == StorageOf(i)
        s == GetStrategy(i)
    IN CASE s = STRATEGY_SQLITE3 ->
              IF HasOwn(sqliteDb, <<k.namespace, k.key>>)
              THEN {JSONParse(sqliteDb[<<k.namespace, k.key>>].value)}
              ELSE {}
         [] s = STRATEGY_REDIS ->
              IF HasOwn(redisDb, k.merged) THEN {JSONParse(redisDb[k.merged].value)} ELSE {}
         [] s = STRATEGY_MEMCACHED ->
              IF HasOwn(memcachedDb, k.merged) THEN {memcachedDb[k.merged].value} ELSE {}
         [] s = STRATEGY_FILE ->
              IF HasOwn(fs.files, <<k.namespace, k.key>>)
              THEN {JSONParse(fs.files[<<k.namespace, k.key>>])}
              ELSE {}
         [] OTHER ->
              IF HasOwn(st, k.namespace) /\ HasOwn(st[k.namespace], k.key)
              THEN {st[k.namespace][k.key].value}
              ELSE {}

\* C17: on Local, Shared and SQLite3, a push with overwrite = false on a key
\* whose stored entry has expired resolves and stores the new value.
C17_PushOverExpired ==
    [][\A i \in Instances, key \in Keys :
          (/\ last'.op = "push" /\ last'.inst = i /\ last'.key = key
           /\ ~last'.overwrite
           /\ GetStrategy(i) \in {STRATEGY_LOCAL, STRATEGY_SHARED, STRATEGY_SQLITE3}
           /\ InitOk(i)
           /\ ExpiredEntry(i, key))
             => /\ last'.outcome = Resolved(JSUndefined)
                /\ StoredValues(i, key)' = {last'.value}]_vars

(***************************************************************************)
(* Calls in flight.  A method runs its synchronous part when it is called  *)
(* and each callback of a backend request runs later, on its own, in the   *)
(* order the replies arrive.  The calls carry no ttl, so a write is the    *)
(* last request of a push.                                                 *)
(***************************************************************************)
MaxCalls == 2

\* the strategies whose pull and has wait for a reply of the backend
AwaitedReads == {STRATEGY_REDIS, STRATEGY_MEMCACHED, STRATEGY_SQLITE3}

Settled(calls) == {p \in DOMAIN calls : calls[p].pc = "done"}

\* a single-key call; pc is "check" while the reply of the existence pre-check
\* is awaited, "write" while the reply of the write is awaited, "call" while
\* the reply of the only request of the call is awaited, "done" once the
\* promise is settled; order is the rank of the call among the settled ones
\* and after the number of calls that were settled when it was issued
CallOf(op, i, key, value, quiet, pc) ==
    [op |-> op, inst |-> i, key |-> key, value |-> value, quiet |-> quiet, pc |-> pc,
     outcome |-> Pending, order |-> 0, after |-> Cardinality(Settled(inflight))]

Settle(c, o) == [c EXCEPT !.pc = "done", !.outcome = o, !.order = Cardinality(Settled(inflight)) + 1]

\* push(key, value, false) up to its first asynchronous request
PushIssued(w, i, key, value) ==
    LET k == CreateKey(i, key)
        s == GetStrategy(i)
        c == CallOf("push", i, key, value, FALSE, "call")
        made == [w EXCEPT !.fs.dirs = @ \cup {k.namespace}]
    IN IF ~InitOk(i) THEN [world |-> w, call |-> Settle(c, InitFailed(w).outcome)]
       ELSE CASE s \in {STRATEGY_REDIS, STRATEGY_MEMCACHED} ->
                   [world |-> w, call |-> [c EXCEPT !.pc = "check"]]
              [] s = STRATEGY_SQLITE3 -> [world |-> w, call |-> c]
              [] s = STRATEGY_FILE ->
                   IF ~w.fs.root
                   THEN [world |-> w, call |-> Settle(c, FilePush(w.fs, k, value, FALSE).outcome)]
                   ELSE IF HasOwn(w.fs.files, <<k.namespace, k.key>>)
                   THEN [world |-> made, call |-> Settle(c, Rejected("This key already exists."))]
                   ELSE [world |-> made, call |-> [c EXCEPT !.pc = "write"]]
              [] OTHER ->
                   LET r == PushIn(w, i, key, value, FALSE, <<>>)
                   IN [world |-> r.world, call |-> Settle(c, r.outcome)]

\* the callback of the request a call is waiting for
Replied(w, c) ==
    LET i == c.inst
        k == CreateKey(i, c.key)
        exists == IF GetStrategy(i) = STRATEGY_REDIS
                  THEN RedisLive(w.redis, k.merged, now)
                  ELSE MemcachedLive(w.memcached, k.merged, now)
    IN CASE c.pc = "check" ->
              IF exists
              THEN [world |-> w, call |-> Settle(c, Rejected("This key already exists."))]
              ELSE [world |-> w, call |-> [c EXCEPT !.pc = "write"]]
         [] c.pc = "write" ->
              LET r == PushIn(w, i, c.key, c.value, TRUE, <<>>)
              IN [world |-> r.world, call |-> Settle(c, r.outcome)]
         [] OTHER ->
              LET r == CASE c.op = "push" -> PushIn(w, i, c.key, c.value, FALSE, <<>>)
                         [] c.op = "pull" -> PullIn(w, i, k, c.quiet)
                         [] OTHER -> HasInWorld(w, i, k)
              IN [world |-> r.world, call |-> Settle(c, r.outcome)]

\* the values Promise.all hands over, each in the place of its promise,
\* taken in the order the promises were settled
ElementsByCompletion(calls) ==
    [x \in DOMAIN calls |-> calls[CHOOSE y \in DOMAIN calls : calls[y].order = x].outcome]

\* the values Promise.all hands over: each in the place of its promise
Elements(calls) == [x \in DOMAIN calls |-> calls[x].outcome]

\* the fields of data in the order the loop assigns them
RECURSIVE InsertionOrder(_, _, _)
InsertionOrder(keys, kept, x) ==
    IF x > Len(keys) THEN <<>>
    ELSE IF x \in kept /\ \A y \in kept : y < x => keys[y] # keys[x]
    THEN <<keys[x]>> \o InsertionOrder(keys, kept, x + 1)
    ELSE InsertionOrder(keys, kept, x + 1)

\* Promise.all(requests).then(...).catch(...) after the call c was settled
Gathered(b, calls, c) ==
    LET elements == Elements(calls)
        kept == IF b.omitNotFound
                THEN {x \in DOMAIN b.keys : elements[x].value # JSNull}
                ELSE DOMAIN b.keys
    IN IF b.op = "none" \/ b.outcome.status # "pending" THEN b
       ELSE IF c.outcome.status = "rejected"
       THEN [b EXCEPT !.outcome = Rejected(c.outcome.error)]
       ELSE IF Settled(calls) = DOMAIN calls
       THEN [b EXCEPT !.outcome = Resolved(JSObject(Collected(b.keys, elements, kept))),
                      !.inserted = InsertionOrder(b.keys, kept, 1)]
       ELSE b

IssuePush(i, key, value) ==
    /\ batch = NoBatch
    /\ Len(inflight) < MaxCalls
    /\ LET r == PushIssued(World(i), i, key, value)
       IN /\ Commit(i, r.world)
          /\ inflight' = Append(inflight, r.call)
    /\ namaspaceHash' = [namaspaceHash EXCEPT ![i] = CreateKeyNamespace(i)]
    /\ pushedKeys' = pushedKeys \cup {<<StoreOf(i), CreateKeyNamespace(i), md5(key)>>}
    /\ UNCHANGED <<cfgVars, connVars, reaperVars, clockVars, last, increments, batch>>

Complete(p) ==
    /\ p \in DOMAIN inflight
    /\ inflight[p].pc # "done"
    /\ LET r == Replied(World(inflight[p].inst), inflight[p])
           calls == [inflight EXCEPT ![p] = r.call]
       IN /\ Commit(inflight[p].inst, r.world)
          /\ inflight' = calls
          /\ batch' = Gathered(batch, calls, r.call)
          /\ last' = IF r.call.pc = "done"
                     THEN [NoCall EXCEPT !.op = r.call.op, !.inst = r.call.inst,
                                         !.ns = CreateKeyNamespace(r.call.inst),
                                         !.key = r.call.key, !.value = r.call.value,
                                         !.quiet = r.call.quiet, !.outcome = r.call.outcome]
                     ELSE last
    /\ UNCHANGED <<cfgVars, namaspaceHash, connVars, reaperVars, clockVars, pushedKeys,
                   increments>>

\* pullMulti(keys, quiet, omitNotFound) and hasMulti(keys) up to Promise.all, on
\* a connected instance of a strategy whose pull and has wait for the backend
IssueBatch(i, op, keys, quiet, omitNotFound) ==
    LET v == ValidateKeys(keys, JSObject(EmptyObject))
        b == [NoBatch EXCEPT !.op = op, !.inst = i, !.keys = keys, !.quiet = quiet,
                             !.omitNotFound = omitNotFound]
    IN /\ InitOk(i)
       /\ GetStrategy(i) \in AwaitedReads
       /\ batch = NoBatch
       /\ inflight = <<>>
       /\ IF v # <<>> THEN
             /\ batch' = [b EXCEPT !.outcome = v[1]]
             /\ UNCHANGED <<inflight, namaspaceHash>>
          ELSE
             /\ batch' = b
             /\ inflight' = [x \in DOMAIN keys |->
                               CallOf(IF op = "pullMulti" THEN "pull" ELSE "has",
                                      i, keys[x], JSUndefined, quiet, "call")]
             /\ namaspaceHash' = [namaspaceHash EXCEPT ![i] = CreateKeyNamespace(i)]
       /\ UNCHANGED <<cfgVars, connVars, storeVars, reaperVars, clockVars, last, pushedKeys,
                      increments>>

InitAsync ==
    InitWith({f \in [Instances -> Strategies] :
                 f[1] \in AwaitedReads \cup {STRATEGY_FILE} /\ f[2] = STRATEGY_LOCAL})

(***************************************************************************)
(* One instance issuing up to MaxCalls pushes that do not overwrite, for   *)
(* the same key, and the replies arriving in any order.                    *)
(***************************************************************************)
NextRace ==
    \/ Connect(1)
    \/ \E value \in SpecValues : IssuePush(1, "foo", value)
    \/ \E p \in DOMAIN inflight : Complete(p)

SpecRace == InitAsync /\ [][NextRace]_vars

(***************************************************************************)
(* One instance storing values and reading them back with one multi-key    *)
(* call whose single-key calls are answered in any order.                  *)
(***************************************************************************)
GatherBatches ==
    {k \in UNION {[1..n -> Keys] : n \in 1..MaxBatch} :
        \A x, y \in DOMAIN k : x # y => k[x] # k[y]}

InitGather ==
    InitWith({f \in [Instances -> Strategies] : f[1] \in AwaitedReads /\ f[2] = STRATEGY_LOCAL})

NextGather ==
    \/ GetStrategy(1) = STRATEGY_REDIS /\ ConnectToRedis(1)
    \/ GetStrategy(1) = STRATEGY_MEMCACHED /\ ConnectToMemcached(1)
    \/ GetStrategy(1) = STRATEGY_SQLITE3 /\ ConnectToSQLite(1)
    \/ Push(1, "foo", JSNumber(10), TRUE, <<1>>)
    \/ Push(1, "numeric", JSString(<<"b", "\"">>), TRUE, <<1>>)
    \/ \E keys \in GatherBatches, quiet, omitNotFound \in BOOLEAN :
          IssueBatch(1, "pullMulti", keys, quiet, omitNotFound)
    \/ \E keys \in GatherBatches : IssueBatch(1, "hasMulti", keys, FALSE, FALSE)
    \/ \E p \in DOMAIN inflight : Complete(p)

SpecGather == InitGather /\ [][NextGather]_vars

(***************************************************************************)
(* Properties of the calls in flight.                                      *)
(***************************************************************************)
\* the pushes for a key that reached the backend
PushCalls(key) ==
    {p \in DOMAIN inflight :
        /\ inflight[p].op = "push" /\ inflight[p].key = key
        /\ inflight[p].outcome # InitFailed(World(inflight[p].inst)).outcome}

\* every call that stored something was settled after the call p was issued
NothingStoredAtIssue(p) ==
    \A r \in DOMAIN inflight :
        inflight[r].outcome.status = "resolved" => inflight[r].order > inflight[p].after

\* C18: on SQLite3, when pushes with overwrite = false for the same key, issued
\* when the key had no row, are settled, whatever the order of the replies,
\* exactly one push for the key resolved and the row holds its value; every
\* other one was rejected with 'This key already exists.'.  Of two such pushes
\* exactly one succeeds.
C18_ExactlyOneInsertWins ==
    \A key \in Keys : \A p, q \in PushCalls(key) :
        (/\ GetStrategy(1) = STRATEGY_SQLITE3
         /\ p # q
         /\ inflight[p].pc = "done" /\ inflight[q].pc = "done"
         /\ NothingStoredAtIssue(p) /\ NothingStoredAtIssue(q))
            => \E w \in PushCalls(key) :
                  /\ inflight[w].outcome = Resolved(JSUndefined)
                  /\ StoredValues(1, key) = {inflight[w].value}
                  /\ \A l \in {p, q} \ {w} :
                        inflight[l].outcome = Rejected("This key already exists.")
                  /\ Len(inflight) = 2 => w \in {p, q}

\* on SQLite3 the push issued second was answered first and won
C18_SecondIssuedWon ==
    /\ GetStrategy(1) = STRATEGY_SQLITE3
    /\ Len(inflight) = 2
    /\ inflight[1].after = 0 /\ inflight[2].after = 0
    /\ inflight[1].value # inflight[2].value
    /\ inflight[2].outcome = Resolved(JSUndefined) /\ inflight[2].order = 1
    /\ inflight[1].outcome = Rejected("This key already exists.")
    /\ StoredValues(1, "foo") = {inflight[2].value}

\* C19: on Redis, Memcached and File, when pushes with overwrite = false for
\* the same key resolved, two racing ones included, the stored value is the
\* value of the one whose write was answered last.
C19_LastWriteStands ==
    \A key \in Keys : \A p \in PushCalls(key) :
        (/\ GetStrategy(1) \in {STRATEGY_REDIS, STRATEGY_MEMCACHED, STRATEGY_FILE}
         /\ inflight[p].outcome.status = "resolved"
         /\ \A q \in PushCalls(key) :
               inflight[q].outcome.status = "resolved" => inflight[q].order <= inflight[p].order)
            => StoredValues(1, key) = {inflight[p].value}

\* on Redis two pushes with overwrite = false for the same key both passed the
\* pre-check and both resolved; the first value written is gone
C19_BothResolved ==
    /\ GetStrategy(1) = STRATEGY_REDIS
    /\ Len(inflight) = 2
    /\ inflight[1].key = inflight[2].key
    /\ inflight[1].value # inflight[2].value
    /\ inflight[1].outcome = Resolved(JSUndefined)
    /\ inflight[2].outcome = Resolved(JSUndefined)
    /\ inflight[1].order = 1 /\ inflight[2].order = 2
    /\ StoredValues(1, "foo") = {inflight[2].value}

\* the single-key calls whose value the result of the batch keeps
Kept ==
    IF batch.omitNotFound
    THEN {x \in DOMAIN inflight : inflight[x].outcome.value # JSNull}
    ELSE DOMAIN inflight

\* C20: a pullMulti or hasMulti on a strategy that waits for the backend has
\* issued one call per key, in key order, before any of them is settled; when
\* it resolves, in whatever order the calls were settled, the result holds for
\* each key the value of the key's own call, and its fields are in the order of
\* the keys.
C20_ResultKeepsKeyOrder ==
    (batch.op # "none" /\ ValidateKeys(batch.keys, JSObject(EmptyObject)) = <<>>)
       => /\ Len(inflight) = Len(batch.keys)
          /\ \A x \in DOMAIN inflight :
                inflight[x].key = batch.keys[x] /\ inflight[x].after = 0
          /\ batch.outcome.status = "resolved"
                => /\ Settled(inflight) = DOMAIN inflight
                   /\ DOMAIN batch.outcome.value.map = {batch.keys[x] : x \in Kept}
                   /\ \A x \in Kept :
                         batch.outcome.value.map[batch.keys[x]] = inflight[x].outcome.value
                   /\ Len(batch.inserted) = Cardinality(Kept)
                   /\ \A a, b \in DOMAIN batch.inserted :
                         a < b => \E x, y \in Kept :
                                     /\ x < y
                                     /\ batch.keys[x] = batch.inserted[a]
                                     /\ batch.keys[y] = batch.inserted[b]

\* pullMulti(['foo', 'numeric']) resolved after the call for 'numeric' was
\* answered first, each key with its own value
C20_AnsweredInReverse ==
    /\ batch.op = "pullMulti"
    /\ batch.keys = <<"foo", "numeric">>
    /\ batch.outcome.status = "resolved"
    /\ inflight[2].order = 1 /\ inflight[1].order = 2
    /\ DOMAIN batch.outcome.value.map = {"foo", "numeric"}
    /\ batch.outcome.value.map["foo"] = JSNumber(10)
    /\ batch.outcome.value.map["numeric"] = JSString(<<"b", "\"">>)
    /\ batch.inserted = <<"foo", "numeric">>

(***************************************************************************)
(* SpecShared: two instances on the shared strategy, each with its own     *)
(* namespace setting, writing and reading the same key.                    *)
(***************************************************************************)
InitShared == InitWith({f \in [Instances -> Strategies] : \A i \in Instances : f[i] = STRATEGY_SHARED})

NextShared ==
    \E i \in Instances :
        \/ SetNamespace(i, "demo")
        \/ \E value \in SpecValues, overwrite \in BOOLEAN, ttlArg \in SpecTTLArgs :
              Push(i, "foo", value, overwrite, ttlArg)
        \/ Pull(i, "foo", TRUE)
        \/ Has(i, "foo")
        \/ Remove(i, "foo")

SpecShared == InitShared /\ [][NextShared]_vars

\* C21: on the shared strategy, after a push of instance i resolved, pull and
\* has of every instance whose namespace is that of i give the pushed value
\* and true, so every instance reads the value of the last push; pull and has
\* leave the shared storage as it is.
C21_SharedIsCommon ==
    [][\A i, j \in Instances, key \in Keys :
          /\ (/\ last'.op = "push" /\ last'.inst = i /\ last'.key = key
              /\ last'.outcome.status = "resolved"
              /\ GetNamespace(j) = GetNamespace(i))
                => /\ PullResult(j, key, FALSE)'.outcome = Resolved(last'.value)
                   /\ HasResult(j, key)'.outcome = Resolved(JSBoolean(TRUE))
          /\ last'.op \in {"pull", "has"} => UNCHANGED staticStorage]_vars

\* instance 2 overwrote under namespace 'demo' an entry of instance 1, and
\* instance 1 reads the value instance 2 pushed
C21_OtherInstanceReads ==
    /\ last.op = "push" /\ last.inst = 2 /\ last.overwrite
    /\ last.outcome.status = "resolved"
    /\ namespace[1] = "demo" /\ namespace[2] = "demo"
    /\ <<StoreOf(1), md5("demo"), md5("foo")>> \in pushedKeys
    /\ PullResult(1, "foo", FALSE).outcome = Resolved(last.value)

(***************************************************************************)
(* SpecPrivate: instance 1 on the local strategy next to instance 2 on the *)
(* local or the shared one; instance 2 stores an entry, instance 1 stores, *)
(* removes, increments, invalidates and sweeps.                            *)
(***************************************************************************)
InitPrivate ==
    InitWith({f \in [Instances -> {STRATEGY_LOCAL, STRATEGY_SHARED}] : f[1] = STRATEGY_LOCAL})

NextPrivate ==
    \/ \E i \in Instances : SetNamespace(i, "demo")
    \/ \E ttlArg \in SpecTTLArgs : Push(1, "foo", JSNumber(10), TRUE, ttlArg)
    \/ Push(2, "foo", JSNumber(10), TRUE, <<>>)
    \/ Remove(1, "foo")
    \/ Increment(1, "foo", 1)
    \/ \E all \in BOOLEAN : Invalidate(1, all)
    \/ RunGarbageCollector(1)
    \/ Tick

SpecPrivate == InitPrivate /\ [][NextPrivate]_vars

\* C22: a call or a sweep made through an instance on the local strategy
\* leaves the local storage of the other instance and the shared storage as
\* they are, and with them what pull and has of the other instance give.
C22_LocalIsPrivate ==
    [][\A a, b \in Instances, key \in Keys :
          (/\ a # b
           /\ GetStrategy(a) = STRATEGY_LOCAL
           /\ last'.inst = a
           /\ last'.op \in {"push", "remove", "increment", "invalidate", "runGarbageCollector"})
             => /\ storage'[b] = storage[b]
                /\ staticStorage' = staticStorage
                /\ PullResult(b, key, TRUE)'.outcome = PullResult(b, key, TRUE).outcome
                /\ HasResult(b, key)'.outcome = HasResult(b, key).outcome]_vars

\* both instances are on the local strategy with the same namespace; instance 1
\* has just removed its entry of 'foo' and instance 2 still reads its own
C22_SameKeyTwoStores ==
    /\ GetStrategy(1) = STRATEGY_LOCAL /\ GetStrategy(2) = STRATEGY_LOCAL
    /\ GetNamespace(1) = GetNamespace(2)
    /\ last.op = "remove" /\ last.inst = 1 /\ last.outcome.status = "resolved"
    /\ StoredValues(1, "foo") = {}
    /\ <<StoreOf(1), last.ns, md5("foo")>> \in pushedKeys
    /\ PullResult(2, "foo", TRUE).outcome = Resolved(JSNumber(10))

\* C23: on the local and the shared strategy, increment of a key that has no
\* entry (the namespace may have none at all) or whose stored value is not a
\* number resolves and leaves every store as it was.
C23_IncrementOfNoNumber ==
    [][\A i \in Instances, key \in Keys :
          (/\ last'.op = "increment" /\ last'.inst = i /\ last'.key = key
           /\ GetStrategy(i) \in {STRATEGY_LOCAL, STRATEGY_SHARED}
           /\ \A v \in StoredValues(i, key) : v.type # "number")
             => /\ last'.outcome = Resolved(JSUndefined)
                /\ UNCHANGED storeVars]_vars

\* increment on a stored text resolved and the text is still there
C23_TextLeftAlone ==
    /\ last.op = "increment" /\ last.inst = 1
    /\ GetStrategy(1) \in {STRATEGY_LOCAL, STRATEGY_SHARED}
    /\ last.outcome = Resolved(JSUndefined)
    /\ StoredValues(1, last.key) = {JSString(<<"b", "\"">>)}

\* the row of a key holds a value that is not a number (numeric = 0)
RowNotNumeric(i, key) ==
    LET k == CreateKey(i, key)
    IN /\ GetStrategy(i) = STRATEGY_SQLITE3
       /\ InitOk(i)
       /\ HasOwn(sqliteDb, <<k.namespace, k.key>>)
       /\ sqliteDb[<<k.namespace, k.key>>].numeric = 0

C25_MemcachedInvalidateFails ==
    [][\A i \in Instances :
          (/\ last'.op = "invalidate" /\ last'.inst = i
           /\ GetStrategy(i) = STRATEGY_MEMCACHED
           /\ InitOk(i))
             => /\ last'.outcome.status = "rejected"
                /\ UNCHANGED storeVars]_vars

(***************************************************************************)
(* SpecTTL: one instance on any strategy whose default TTL is set and      *)
(* which pushes with and without a ttl while the clock advances.           *)
(***************************************************************************)
DefaultTTLs == {-1, 0, 1, 2}
PushTTLArgs == {<<>>, <<0>>, <<1>>, <<2>>}

NextTTL ==
    \/ Connect(1)
    \/ \E ttl \in DefaultTTLs : SetDefaultTTL(1, ttl)
    \/ \E ttlArg \in PushTTLArgs : Push(1, "foo", JSNumber(10), TRUE, ttlArg)
    \/ Tick

SpecTTL == Init /\ [][NextTTL]_vars

\* the expiry instants kept with the entry of the key: milliseconds in the
\* memory, Redis and Memcached strategies, seconds in the expire column
StoredExpiry(i, key) ==
    LET k == CreateKey(i, key)
        st == StorageOf(i)
        s == GetStrategy(i)
    IN CASE s = STRATEGY_SQLITE3 ->
              IF HasOwn(sqliteDb, <<k.namespace, k.key>>)
              THEN {sqliteDb[<<k.namespace, k.key>>].expire} ELSE {}
         [] s = STRATEGY_REDIS ->
              IF HasOwn(redisDb, k.merged) THEN {redisDb[k.merged].expireAt} ELSE {}
         [] s = STRATEGY_MEMCACHED ->
              IF HasOwn(memcachedDb, k.merged) THEN {memcachedDb[k.merged].expireAt} ELSE {}
         [] s = STRATEGY_FILE -> {}
         [] OTHER ->
              IF HasOwn(st, k.namespace) /\ HasOwn(st[k.namespace], k.key)
              THEN {st[k.namespace][k.key].expire} ELSE {}

\* the expiry the documentation gives to a push made at instant t
ExpectedExpiry(s, default, ttlArg, t) ==
    LET seconds == IF ttlArg # <<>> THEN ttlArg[1]
                   ELSE IF default = <<>> THEN 0 ELSE default[1]
        at == t + seconds * MS_PER_SECOND
    IN IF seconds = 0 THEN <<>>
       ELSE IF s = STRATEGY_SQLITE3 THEN <<at \div MS_PER_SECOND>> ELSE <<at>>

\* C26: a push that resolves on a strategy that keeps expiry times stores the
\* entry with expiry = push time + ttl when a ttl is given, push time +
\* defaultTTL when it is omitted and the default is positive, and with no
\* expiry when the resolved ttl is 0 (an explicit 0 too, whatever the default).
C26_ResolvedTTLStored ==
    [][\A i \in Instances :
          (/\ last'.op = "push" /\ last'.inst = i
           /\ last'.outcome.status = "resolved"
           /\ GetStrategy(i) # STRATEGY_FILE)
             => \A key \in Keys :
                   last'.key = key =>
                      StoredExpiry(i, key)' =
                         {ExpectedExpiry(GetStrategy(i), defaultTTL[i], last'.ttl, now)}]_vars

\* an entry pushed with an explicit ttl of 0 under a positive default, kept
\* without expiry
C26_ExplicitZeroOverDefault ==
    /\ last.op = "push" /\ last.inst = 1 /\ last.outcome.status = "resolved"
    /\ last.ttl = <<0>>
    /\ GetDefaultTTL(1) > 0
    /\ GetStrategy(1) = STRATEGY_REDIS
    /\ StoredExpiry(1, "foo") = {<<>>}

\* C27: on SQLite3 a row whose expire column is NULL (an entry pushed with no
\* expiry) is returned by pull and reported true by has at every time until
\* it is removed.
C27_NullExpireRowIsLive ==
    \A i \in Instances, key \in SpecKeys :
       LET k == CreateKey(i, key)
       IN (/\ GetStrategy(i) = STRATEGY_SQLITE3
           /\ InitOk(i)
           /\ HasOwn(sqliteDb, <<k.namespace, k.key>>)
           /\ sqliteDb[<<k.namespace, k.key>>].expire = <<>>)
             => /\ HasResult(i, key).outcome = Resolved(JSBoolean(TRUE))
                /\ PullResult(i, key, FALSE).outcome =
                      Resolved(JSONParse(sqliteDb[<<k.namespace, k.key>>].value))

(***************************************************************************)
(* Closing connections.  A connection field holds "undefined" (never set), *)
(* "open" (a client whose connection is up) or "null" (closed).            *)
(***************************************************************************)
SetStrategy(i, s) ==
    /\ strategy' = [strategy EXCEPT ![i] = s]
    /\ last' = [NoCall EXCEPT !.op = "setStrategy", !.inst = i]
    /\ UNCHANGED <<namespace, defaultTTL, namaspaceHash, connVars, storeVars, reaperVars,
                   clockVars, pushedKeys, increments, asyncVars>>

\* quit(), end() or close() on a connection that is up, then the field is null
CloseRedisConnection(conn, i) == [conn EXCEPT ![i] = "null"]
CloseMemcachedConnection(conn, i) == [conn EXCEPT ![i] = "null"]
CloseSQLite3Connection(conn, i) == [conn EXCEPT ![i] = "null"]

\* closeConnections(all): the third branch calls SQLite3Connected(), which
\* only tests the connection
CloseConnections(i, all) ==
    /\ redisConnection' = IF all \/ GetStrategy(i) # STRATEGY_REDIS
                          THEN CloseRedisConnection(redisConnection, i)
                          ELSE redisConnection
    /\ memcachedConnection' = IF all \/ GetStrategy(i) # STRATEGY_MEMCACHED
                              THEN CloseMemcachedConnection(memcachedConnection, i)
                              ELSE memcachedConnection
    /\ sqliteConnection' = sqliteConnection
    /\ last' = [NoCall EXCEPT !.op = "closeConnections", !.inst = i, !.all = all]
    /\ UNCHANGED <<cfgVars, namaspaceHash, storagePath, ready, storeVars, reaperVars,
                   clockVars, pushedKeys, increments, asyncVars>>

(***************************************************************************)
(* SpecConnections: an instance that opens connections, changes strategy   *)
(* and closes connections.                                                 *)
(***************************************************************************)
NextConnections ==
    \E i \in Instances :
        \/ ConnectToRedis(i)
        \/ ConnectToMemcached(i)
        \/ ConnectToSQLite(i)
        \/ \E s \in Strategies : SetStrategy(i, s)
        \/ \E all \in BOOLEAN : CloseConnections(i, all)

SpecConnections == Init /\ [][NextConnections]_vars

\* C28: after closeConnections(true) none of the instance's Redis, Memcached
\* and SQLite connections is open; after closeConnections() every connection
\* that does not belong to the active strategy is closed.
C28_UnusedConnectionsClosed ==
    [][\A i \in Instances :
          (last'.op = "closeConnections" /\ last'.inst = i)
             => /\ (last'.all \/ GetStrategy(i) # STRATEGY_REDIS) => ~RedisConnected(i)'
                /\ (last'.all \/ GetStrategy(i) # STRATEGY_MEMCACHED) => ~MemcachedConnected(i)'
                /\ (last'.all \/ GetStrategy(i) # STRATEGY_SQLITE3) => ~SQLite3Connected(i)']_vars

(***************************************************************************)
(* SpecHasAll: an instance on any strategy that pushes and removes two     *)
(* keys and asks for batches of up to three keys with hasAll.              *)
(***************************************************************************)
HasAllBatches ==
    {<<>>} \cup
    {k \in UNION {[1..n -> {"foo", "numeric", "missing"}] : n \in 1..(MaxBatch + 1)} :
        \A x, y \in DOMAIN k : x # y => k[x] # k[y]}

NextHasAll ==
    \/ Connect(1)
    \/ \E key \in Keys, ttlArg \in SpecTTLArgs : Push(1, key, JSNumber(10), TRUE, ttlArg)
    \/ \E key \in Keys : Remove(1, key)
    \/ \E keys \in HasAllBatches : HasAll(1, keys)

SpecHasAll == Init /\ [][NextHasAll]_vars

\* C29: hasAll of a batch of valid keys resolves to true exactly when has of
\* every key of the batch resolves to true, and it issues one has per key of
\* the batch, whatever the earlier ones answer.
C29_HasAllIsConjunction ==
    [][\A i \in Instances, keys \in HasAllBatches :
          (last'.op = "hasAll" /\ last'.inst = i /\ last'.keys = keys)
             => /\ (last'.outcome = Resolved(JSBoolean(TRUE)))
                      <=> \A x \in DOMAIN keys :
                             HasResult(i, keys[x]).outcome = Resolved(JSBoolean(TRUE))
                /\ Len(last'.requests) = Len(keys)
                /\ \A x \in DOMAIN keys :
                      last'.requests[x] = HasResult(i, keys[x]).outcome]_vars

\* a hasAll that resolved false on a batch whose first key is absent and
\* whose second key is stored: the second check was made and answered true
C29_CheckedAfterFalse ==
    /\ last.op = "hasAll" /\ last.inst = 1
    /\ last.keys = <<"missing", "foo">>
    /\ last.outcome = Resolved(JSBoolean(FALSE))
    /\ last.requests = <<Resolved(JSBoolean(FALSE)), Resolved(JSBoolean(TRUE))>>

CacheOps == {"push", "pull", "has", "remove", "invalidate"}

\* C30: whatever setNamespace calls and cache operations came before, the
\* namespace hash an operation uses is the hash of the instance's current
\* namespace ('*' for the empty one), every key is derived from the current
\* namespace and the key alone, and a hash once computed changes only in a
\* setNamespace call that is given another namespace than the current one.
C30_HashFollowsNamespace ==
    [][\A i \in Instances :
          /\ namaspaceHash'[i] \in {UNDEFINED, NamespaceHashOf(GetNamespace(i)')}
          /\ (last'.inst = i /\ last'.op \in CacheOps)
                => last'.ns = NamespaceHashOf(GetNamespace(i)')
          /\ \A key \in Keys :
                CreateKey(i, key)' =
                   [namespace |-> NamespaceHashOf(GetNamespace(i)'),
                    key |-> md5(key),
                    merged |-> Merged(NamespaceHashOf(GetNamespace(i)'), md5(key))]
          /\ (namaspaceHash[i] # UNDEFINED /\ namaspaceHash'[i] # namaspaceHash[i])
                => /\ last'.op = "setNamespace" /\ last'.inst = i
                   /\ GetNamespace(i)' # GetNamespace(i)]_vars

\* a push under the namespace "demo" by an instance that pushed under the
\* empty namespace before
C30_PushedUnderBothNamespaces ==
    /\ last.op = "push" /\ last.inst = 1 /\ last.outcome.status = "resolved"
    /\ namespace[1] = "demo"
    /\ last.ns = md5("demo")
    /\ <<StoreOf(1), "*", md5("foo")>> \in pushedKeys
    /\ <<StoreOf(1), md5("demo"), md5("foo")>> \in pushedKeys

\* C31: once stop() has returned on a Running process-wide reaper the reaper
\* has no timer, no timer-driven sweep of the shared storage runs while it has
\* none, only a start() that returns true gives it one again, and until then
\* the shared storage changes only in a call (push, explicit sweep), never
\* by a timer.
C31_NoSweepAfterStop ==
    [][/\ (last'.op = "stopGlobalGarbageCollector" /\ Running(GLOBAL)) => ~Running(GLOBAL)'
       /\ (last'.op = "timer" /\ last'.inst = GLOBAL) => Running(GLOBAL)
       /\ (~Running(GLOBAL) /\ Running(GLOBAL)')
             => StartOf(GLOBAL, last') /\ last'.outcome = Returned(JSBoolean(TRUE))
       /\ (~Running(GLOBAL) /\ staticStorage' # staticStorage)
             => last'.op \in {"push", "runGlobalGarbageCollector",
                              "startGlobalGarbageCollector"}]_vars

\* the process-wide reaper was started and stopped, and an entry of the
\* shared storage that expired a full timer interval ago is still stored
C31_ExpiredKeptAfterStop ==
    /\ garbageCollectorInterval # 0
    /\ ~Running(GLOBAL)
    /\ \E n \in DOMAIN staticStorage : \E x \in DOMAIN staticStorage[n] :
          /\ staticStorage[n][x].expire # NoDate
          /\ DateToNumber(staticStorage[n][x].expire) + GC_INTERVAL_MS <= now

(***************************************************************************)
(* SpecSweep: two instances, each on the local or the shared strategy,     *)
(* that push entries with a ttl, and the sweeps of the instance reapers    *)
(* and of the process-wide one, called or run by a timer.                  *)
(***************************************************************************)
InitSweep == InitWith([Instances -> {STRATEGY_LOCAL, STRATEGY_SHARED}])

NextSweep ==
    \/ \E i \in Instances, ttlArg \in SpecTTLArgs : Push(i, "foo", JSNumber(10), TRUE, ttlArg)
    \/ \E i \in Instances : RunGarbageCollector(i)
    \/ RunGlobalGarbageCollector
    \/ StartGarbageCollector(1)
    \/ StartGlobalGarbageCollector
    \/ \E t \in timers : TimerTick(t)
    \/ Tick

SpecSweep == InitSweep /\ [][NextSweep]_vars

\* C32: a sweep of an instance's reaper changes that instance's local
\* storage only, a sweep of the process-wide reaper the shared storage only;
\* the storage of every other reaper and the external stores stay as they are.
C32_SweepFrame ==
    [][\A r \in Reapers :
          SweepRan(r, last') =>
              /\ \A other \in Reapers \ {r} : StorageOfReaper(other)' = StorageOfReaper(other)
              /\ UNCHANGED <<redisDb, memcachedDb, sqliteDb, fs>>]_vars

\* a sweep of instance 1 that deleted an entry while the shared storage held
\* an expired entry too
C32_OtherStorageHadExpired ==
    /\ last.op = "runGarbageCollector" /\ last.inst = 1
    /\ last.removed # {}
    /\ \E n \in DOMAIN staticStorage : \E x \in DOMAIN staticStorage[n] :
          /\ staticStorage[n][x].expire # NoDate
          /\ DateToNumber(staticStorage[n][x].expire) < now

MemoryStrategies == {STRATEGY_LOCAL, STRATEGY_SHARED}

\* C33: on the local and the shared strategy increment and decrement leave
\* the set of stored keys and the expiry of the entry as they are, and the
\* expiry stored at a key changes only in a push or a remove of the key.
C33_ExpiryKeptByIncrement ==
    [][\A i \in Instances :
          GetStrategy(i) \in MemoryStrategies =>
             /\ (last'.inst = i /\ last'.op \in {"increment", "decrement"})
                   => /\ StoredExpiry(i, "numeric")' = StoredExpiry(i, "numeric")
                      /\ DOMAIN StorageOf(i)' = DOMAIN StorageOf(i)
                      /\ \A n \in DOMAIN StorageOf(i) :
                            DOMAIN StorageOf(i)'[n] = DOMAIN StorageOf(i)[n]
             /\ StoredExpiry(i, "numeric")' # StoredExpiry(i, "numeric")
                   => last'.op \in {"push", "remove"}]_vars

\* an increment that raised 10 to 11 in an entry that has an expiry time
C33_IncrementedWithExpiry ==
    /\ last.op = "increment" /\ last.inst = 1
    /\ GetStrategy(1) = STRATEGY_SHARED
    /\ StoredValues(1, "numeric") = {JSNumber(11)}
    /\ StoredExpiry(1, "numeric") = {DateOf(START_MS + MS_PER_SECOND)}

\* C34: on Memcached decrement(k, d) with an integer d >= 1, which is
\* increment(k, -d), lowers the stored number n >= d by exactly d.
C34_MemcachedDecrementExact ==
    [][\A i \in Instances, key \in Keys :
          LET k == CreateKey(i, key)
          IN (/\ last'.op = "decrement" /\ last'.inst = i /\ last'.key = key
              /\ last'.delta >= 1
              /\ GetStrategy(i) = STRATEGY_MEMCACHED
              /\ InitOk(i)
              /\ MemcachedLive(memcachedDb, k.merged, now)
              /\ memcachedDb[k.merged].value.type = "number"
              /\ memcachedDb[k.merged].value.num >= last'.delta)
                => /\ last'.outcome.status = "resolved"
                   /\ memcachedDb'[k.merged].value =
                         JSNumber(memcachedDb[k.merged].value.num - last'.delta)]_vars

\* C35: a sweep leaves every live entry where it is: an entry of the swept
\* storage that has no expiry time, or one later than the time of the sweep,
\* is stored after the sweep with the value and the expiry it had.
C35_SweepKeepsLive ==
    [][\A r \in Reapers :
          SweepRan(r, last') =>
              \A n \in DOMAIN StorageOfReaper(r) : \A x \in DOMAIN StorageOfReaper(r)[n] :
                 (\/ StorageOfReaper(r)[n][x].expire = NoDate
                  \/ DateToNumber(StorageOfReaper(r)[n][x].expire) > now)
                    => /\ HasOwn(StorageOfReaper(r)', n)
                       /\ HasOwn(StorageOfReaper(r)'[n], x)
                       /\ StorageOfReaper(r)'[n][x] = StorageOfReaper(r)[n][x]]_vars

\* a timer-driven sweep of instance 1's storage, one tick after the start,
\* that found an entry due to expire later and left it stored
C35_SweptAroundLiveEntry ==
    /\ last.op = "timer" /\ last.inst = 1
    /\ now > START_MS
    /\ \E n \in DOMAIN storage[1] : \E x \in DOMAIN storage[1][n] :
          /\ storage[1][n][x].expire # NoDate
          /\ DateToNumber(storage[1][n][x].expire) > now

(***************************************************************************)
(* SpecOverwrite: two instances on the local or the shared strategy that   *)
(* push one key again and again while the clock advances; the text value   *)
(* is pushed, without ttl, only over an entry that has an expiry time.     *)
(***************************************************************************)
HasExpiry(i, key) == StoredExpiry(i, key) \notin {{}, {NoDate}}

NextOverwrite ==
    \/ \E i \in Instances, overwrite \in BOOLEAN, ttlArg \in PushTTLArgs :
          Push(i, "foo", JSNumber(10), overwrite, ttlArg)
    \/ \E i \in Instances :
          HasExpiry(i, "foo") /\ Push(i, "foo", JSString(<<"b", "\"">>), TRUE, <<>>)
    \/ Tick

SpecOverwrite == InitSweep /\ [][NextOverwrite]_vars

\* C36: on the local and the shared strategy a push with overwrite = true
\* that resolves leaves exactly one entry at the key, with the value pushed
\* and the expiry resolved from the ttl of this call (none when it resolves
\* to 0), whatever entry was there before.
C36_OverwriteReplacesEntry ==
    [][\A i \in Instances, key \in Keys :
          (/\ last'.op = "push" /\ last'.inst = i /\ last'.key = key
           /\ last'.overwrite
           /\ last'.outcome.status = "resolved"
           /\ GetStrategy(i) \in MemoryStrategies)
             => /\ StoredValues(i, key)' = {last'.value}
                /\ StoredExpiry(i, key)' =
                      {ExpectedExpiry(GetStrategy(i), defaultTTL[i], last'.ttl, now)}
                /\ StorageOf(i)'[NamespaceHashOf(GetNamespace(i))][md5(key)] =
                      [value |-> last'.value,
                       expire |-> ExpectedExpiry(GetStrategy(i), defaultTTL[i],
                                                 last'.ttl, now)]]_vars

\* the text pushed without ttl over an entry that had an expiry time: the
\* entry stored now never expires
C36_ExpiryDroppedByOverwrite ==
    /\ last.op = "push" /\ last.inst = 1 /\ last.overwrite
    /\ last.value = JSString(<<"b", "\"">>)
    /\ last.outcome.status = "resolved"
    /\ StoredValues(1, "foo") = {JSString(<<"b", "\"">>)}
    /\ StoredExpiry(1, "foo") = {NoDate}

(***************************************************************************)
(* SpecPartial: an instance on any strategy that pushes the key "foo" on   *)
(* its own, without overwriting, and pushes batches of texts with          *)
(* pushMulti, without overwriting.                                         *)
(***************************************************************************)
TextBatches == {e \in PushBatches : \A x \in DOMAIN e : e[x][2] = JSString(<<"b", "\"">>)}

NextPartial ==
    \/ Connect(1)
    \/ \E ttlArg \in SpecTTLArgs : Push(1, "foo", JSNumber(10), FALSE, ttlArg)
    \/ \E elements \in TextBatches : PushMulti(1, elements, FALSE, <<>>)

SpecPartial == Init /\ [][NextPartial]_vars

RedisFaults == {"none", "exists", "set", "expire"}

RedisPushFaulty(db, k, value, overwrite, ttl, t, fault) ==
    LET failed == Rejected("An error occurred in Redis transaction.")
    IN IF ~overwrite /\ fault = "exists" THEN Step(db, failed)
       ELSE IF ~overwrite /\ RedisLive(db, k.merged, t)
       THEN Step(db, Rejected("This key already exists."))
       ELSE IF fault = "set" THEN Step(db, failed)
       ELSE IF ttl = <<>>
       THEN Step(RedisSetExpire(db, k.merged, JSONStringify(value), <<>>, t),
                 Resolved(JSUndefined))
       ELSE IF fault = "expire"
       THEN \* SET has stored the value, with no expiry; EXPIRE is refused
            Step(RedisSetExpire(db, k.merged, JSONStringify(value), <<>>, t), failed)
       ELSE Step(RedisSetExpire(db, k.merged, JSONStringify(value), ttl, t),
                 Resolved(JSUndefined))

PushWithFault(i, key, value, overwrite, ttlArg, fault) ==
    /\ GetStrategy(i) = STRATEGY_REDIS
    /\ InitOk(i)
    /\ LET w == World(i)
           r == RedisPushFaulty(w.redis, CreateKey(i, key), value, overwrite,
                                ResolveTTL(i, ttlArg), now, fault)
       IN Operation(i, Step([w EXCEPT !.redis = r.world], r.outcome),
                    [NoCall EXCEPT !.op = "push", !.key = key, !.value = value,
                                   !.overwrite = overwrite, !.ttl = ttlArg])

(***************************************************************************)
(* SpecFault: an instance on any strategy that pushes and removes a key;   *)
(* on Redis any command of a push may fail.                                *)
(***************************************************************************)
NextFault ==
    \/ Connect(1)
    \/ \E value \in SpecValues, overwrite \in BOOLEAN, ttlArg \in SpecTTLArgs :
          Push(1, "foo", value, overwrite, ttlArg)
    \/ \E value \in SpecValues, overwrite \in BOOLEAN, ttlArg \in SpecTTLArgs,
          fault \in RedisFaults : PushWithFault(1, "foo", value, overwrite, ttlArg, fault)
    \/ Remove(1, "foo")

SpecFault == Init /\ [][NextFault]_vars

\* C38: a push that is reported as failed leaves the entry stored at its key,
\* or its absence, as it was before the call, on every strategy.
C38_FailedPushChangesNothing ==
    [][\A i \in Instances, key \in Keys :
          (/\ last'.op = "push" /\ last'.inst = i /\ last'.key = key
           /\ last'.outcome.status = "rejected")
             => /\ StoredValues(i, key)' = StoredValues(i, key)
                /\ StoredExpiry(i, key)' = StoredExpiry(i, key)]_vars

(***************************************************************************)
(* invalidate on Redis, request by request: the KEYS request, then in its  *)
(* callback one DEL request per element; the promise is resolved in the    *)
(* callback of the DEL that brings the counter of requests back to 0.      *)
(***************************************************************************)
RECURSIVE SeqOf(_)
SeqOf(S) == IF S = {} THEN <<>> ELSE LET x == CHOOSE y \in S : TRUE IN <<x>> \o SeqOf(S \ {x})

\* invalidate(all) up to its KEYS request
IssueInvalidate(i, all) ==
    /\ GetStrategy(i) = STRATEGY_REDIS
    /\ InitOk(i)
    /\ batch = NoBatch
    /\ inflight = <<>>
    /\ batch' = [NoBatch EXCEPT !.op = "invalidate", !.inst = i, !.all = all,
                             !.ns = CreateKeyNamespace(i), !.pc = "keys"]
    /\ namaspaceHash' = [namaspaceHash EXCEPT ![i] = CreateKeyNamespace(i)]
    /\ UNCHANGED <<cfgVars, connVars, storeVars, reaperVars, clockVars, last, pushedKeys,
                   increments, inflight>>

\* the callback of KEYS: elements.forEach issues a DEL for each element
KeysReplied ==
    /\ batch.op = "invalidate"
    /\ batch.pc = "keys"
    /\ LET elements == SeqOf(RedisKeys(redisDb, [namespace |-> batch.ns], batch.all, now))
       IN /\ inflight' = [x \in DOMAIN elements |->
                            CallOf("del", batch.inst, elements[x], JSUndefined, FALSE, "call")]
          /\ batch' = [batch EXCEPT !.pc = "dels", !.keys = elements]
    /\ UNCHANGED <<cfgVars, namaspaceHash, connVars, storeVars, reaperVars, clockVars, last,
                   pushedKeys, increments>>

\* the callback of a DEL: requests--, and resolve() when requests is 0
DelReplied(p) ==
    /\ batch.op = "invalidate"
    /\ p \in DOMAIN inflight
    /\ inflight[p].op = "del"
    /\ inflight[p].pc # "done"
    /\ redisDb' = ObjectDelete(redisDb, inflight[p].key)
    /\ LET calls == [inflight EXCEPT ![p] = Settle(@, Resolved(JSUndefined))]
       IN /\ inflight' = calls
          /\ batch' = IF Settled(calls) = DOMAIN calls
                      THEN [batch EXCEPT !.outcome = Resolved(JSUndefined), !.pc = "done"]
                      ELSE batch
    /\ UNCHANGED <<cfgVars, namaspaceHash, connVars, storage, staticStorage, memcachedDb,
                   sqliteDb, fs, reaperVars, clockVars, last, pushedKeys, increments>>

(***************************************************************************)
(* SpecInvalidate: an instance on Redis that pushes two keys under two     *)
(* namespaces and calls invalidate once; every request Redis has received  *)
(* is answered in the end.                                                 *)
(***************************************************************************)
InitInvalidate ==
    InitWith({f \in [Instances -> Strategies] : f[1] = STRATEGY_REDIS /\ f[2] = STRATEGY_LOCAL})

NextInvalidate ==
    \/ ConnectToRedis(1)
    \/ \E ns \in Namespaces : SetNamespace(1, ns)
    \/ \E key \in Keys : Push(1, key, JSNumber(10), TRUE, <<>>)
    \/ \E all \in BOOLEAN : IssueInvalidate(1, all)
    \/ KeysReplied
    \/ \E p \in DOMAIN inflight : DelReplied(p)

SpecInvalidate ==
    /\ InitInvalidate
    /\ [][NextInvalidate]_vars
    /\ WF_vars(KeysReplied)
    /\ WF_vars(\E p \in DOMAIN inflight : DelReplied(p))

\* C39: an invalidate that was called is settled in the end: its promise is
\* resolved or rejected, whatever the store holds.
C39_InvalidateSettles ==
    (batch.op = "invalidate") ~> (batch.op = "invalidate" /\ batch.outcome.status # "pending")

\* isReady()
IsReady(i) == ready[i] = TRUE

\* C40: once connectToRedis, connectToMemcached or connectToSQLite has
\* resolved or rejected, isReady() returns true.
C40_ReadyAfterConnect ==
    [][\A i \in Instances :
          (/\ last'.inst = i
           /\ last'.op \in {"connectToRedis", "connectToMemcached", "connectToSQLite"}
           /\ last'.outcome.status \in {"resolved", "rejected"})
             => IsReady(i)']_vars

====
